---------------------------- MODULE Spec2Model ----------------------------
(***************************************************************************)
(* LuxHub: the serverless handlers of the retail dashboard (Shopify        *)
(* webhook, SPY credential/sync jobs, admin dispatcher, assistant,         *)
(* aggregation handlers) as state machines over the shared datastore.      *)
(*                                                                         *)
(* Conventions.  SQL NULL / JS undefined of a text field is the string     *)
(* NULL; an optional number is a sequence, << >> for null/NaN and <<n>>    *)
(* for the number n.  A table is the sequence of its rows in insertion     *)
(* order.  Every handler is split at its awaits: the steps of concurrent   *)
(* handler runs interleave, each datastore call is atomic.                 *)
(***************************************************************************)
EXTENDS Integers, Sequences, FiniteSets, TLC

VARIABLES
    \* ---- datastore (supabase/migrations/20250729000001_initial_schema.sql)
    shopify_orders,   \* table shopify_orders
    notifications,    \* table notifications
    \* ---- environment
    webhookSecret,    \* Deno.env SHOPIFY_WEBHOOK_SECRET (NULL: not configured)
    \* ---- shopify-webhook handler runs
    wh,               \* per delivery: position in the handler and its locals
    whWrites,         \* history: <<delivery, table>> for every row it wrote
    whUpserts,        \* history: deliveries in the order their upsert applied
    \* ---- datastore, SPY side
    secrets,          \* table secrets: key -> << >> or <<row>> (key is UNIQUE)
    spy_orders,       \* table spy_orders
    products,         \* table products
    inventory_snapshots, \* table inventory_snapshots
    now,              \* the wall clock, in hours
    \* ---- SPY handler runs (one slot per function, run after run)
    lg,               \* spy-login-refresh
    os,               \* spy-sync-orders
    iv,               \* spy-sync-inventory
    ad,               \* spy-admin
    \* ---- read-side handlers
    iq,               \* the last low-stock derivation: which place, its result
    ss,               \* sales-summary
    ai,               \* ai-ask, the assistant
    \* ---- front end
    app,              \* component App: its state, the calls in flight, the address
    chat,             \* component AIChat: messages, input, loading, the call in flight
    dash              \* components Dashboard and SalesView: period, summary, calls

NULL == "NULL"

Range(s) == {s[i] : i \in 1..Len(s)}

RECURSIVE SeqSum(_)
SeqSum(s) == IF s = << >> THEN 0 ELSE Head(s) + SeqSum(Tail(s))

(***************************************************************************)
(* Bounds of the model.                                                    *)
(***************************************************************************)
MaxDeliveries == 2      \* webhook deliveries in one behaviour
MaxOrderId == 2         \* Shopify order ids 1..MaxOrderId

MaxTime == 2            \* the clock runs over 0..MaxTime hours
MaxNotifications == 2   \* rows of notifications written by the SPY handlers
MaxOrders == 3          \* records in one reply of the SPY orders API
MaxVariants == 2        \* records in one reply of the SPY stock API
MaxSnapshots == 2       \* rows of inventory_snapshots

Deliveries == 1..MaxDeliveries
OrderIds == 1..MaxOrderId

(***************************************************************************)
(* shopify-webhook: inputs                                                 *)
(***************************************************************************)
\* Shopify sends total_price as a decimal string: a sequence of characters.
Digits == <<"0", "1", "2", "3", "4", "5", "6", "7", "8", "9">>
IsDigit(c) == \E d \in 1..10 : Digits[d] = c
DigitVal(c) == (CHOOSE d \in 1..10 : Digits[d] = c) - 1

RECURSIVE DigitPrefix(_)
DigitPrefix(s) ==
    IF s = << >> \/ ~IsDigit(Head(s)) THEN << >>
    ELSE <<Head(s)>> \o DigitPrefix(Tail(s))

RECURSIVE DecimalValue(_, _)
DecimalValue(s, acc) ==
    IF s = << >> THEN acc ELSE DecimalValue(Tail(s), 10 * acc + DigitVal(Head(s)))

\* parseFloat on a string of digits and other characters: the value of the
\* longest numeric prefix, NaN (<< >>) when there is none.
parseFloat(s) ==
    IF DigitPrefix(s) = << >> THEN << >> ELSE <<DecimalValue(DigitPrefix(s), 0)>>

\* The order payloads a delivery may carry (the JSON object of the body).
\* total_price << >> is an absent/empty total_price; created_at is an instant
\* of the clock, << >> when the payload has none.
PayloadShapes ==
    { [created_at |-> <<1>>, total_price |-> <<"1", "2">>,
       fulfillment_status |-> "fulfilled", customer_email |-> "a@x"],
      [created_at |-> <<2>>, total_price |-> << >>,
       fulfillment_status |-> NULL, customer_email |-> NULL],
      [created_at |-> <<2>>, total_price |-> <<"7", "x">>,
       fulfillment_status |-> NULL, customer_email |-> "b@x"],
      [created_at |-> << >>, total_price |-> <<"x">>,
       fulfillment_status |-> "fulfilled", customer_email |-> NULL] }

Payloads ==
    { [id |-> i, created_at |-> s.created_at, total_price |-> s.total_price,
       fulfillment_status |-> s.fulfillment_status,
       customer_email |-> s.customer_email] : i \in OrderIds, s \in PayloadShapes }

\* A raw request body: the serialisation of a payload, or text that is no JSON.
\* (json FALSE: the text of the payload cut short, which JSON.parse rejects.)
Bodies == {[json |-> j, payload |-> p] : j \in BOOLEAN, p \in Payloads}

Keys == {"k1", "k2"}
\* HMAC-SHA256 in base64, idealised: two digests are equal exactly when key
\* and message are.
Hmac(key, body) == [key |-> key, msg |-> body]
\* The x-shopify-hmac-sha256 header: << >> when the request has none.
Headers(body) ==
    {<< >>} \cup {<<Hmac(k, b)>> : k \in Keys,
                   b \in {body, [body EXCEPT !.json = ~body.json]}}

Topics == {"orders/create", "orders/updated", "orders/paid"}


(***************************************************************************)
(* shopify-webhook: the handler                                            *)
(***************************************************************************)
\* (mutant) the comparison of the digests is left out.
SignatureAccepted_PresenceOnly(secret, header, body) ==
    /\ secret # NULL
    /\ header # << >>

\* lines 21-32: the secret is configured, the header is present and equals
\* the digest of the raw body under the secret.
SignatureAccepted(secret, header, body) ==
    /\ secret # NULL
    /\ header # << >>
    /\ Hmac(secret, body) = header[1]

\* lines 45-52: the row the handler sends to the datastore.
OrderRow(o) ==
    [id |-> o.id,
     created_at |-> o.created_at,
     total_amount |-> parseFloat(IF o.total_price = << >> THEN <<"0">>
                                 ELSE o.total_price),
     status |-> IF o.fulfillment_status = NULL THEN "pending"
                ELSE o.fulfillment_status,
     customer_email |-> o.customer_email,
     json |-> o]

\* (mutant) a plain insert instead of the upsert.
UpsertById_Insert(table, row) == Append(table, row)

\* (mutant) on a conflict the fields the new row leaves empty keep their
\* stored values.
UpsertById_Merge(table, row) ==
    IF \E i \in 1..Len(table) : table[i].id = row.id
    THEN [i \in 1..Len(table) |->
             IF table[i].id = row.id
             THEN [row EXCEPT !.customer_email =
                       IF row.customer_email = NULL THEN table[i].customer_email
                       ELSE row.customer_email]
             ELSE table[i]]
    ELSE Append(table, row)

\* upsert(row, {onConflict: 'id'}): the row replaces the stored row of the
\* same id, or is added when there is none.
UpsertById(table, row) ==
    IF \E i \in 1..Len(table) : table[i].id = row.id
    THEN [i \in 1..Len(table) |->
             IF table[i].id = row.id THEN row ELSE table[i]]
    ELSE Append(table, row)

\* schema line 34: created_at timestamptz NOT NULL.
ShopifyRowAccepted(row) == row.created_at # << >>

\* lines 62-66
NewOrderNotification(o) ==
    [title |-> "New Shopify Order",
     body |-> [order |-> o.id, price |-> o.total_price],
     type |-> "info"]

\* line 42: the topics whose payload is stored.
StoresOrder(topic) == topic \in {"orders/create", "orders/updated"}

\* (mutant) every stored order is announced.
NotifiesNewOrder_AnyStored(topic) == TRUE

\* line 59: the topic that is announced by a notification.
NotifiesNewOrder(topic) == topic = "orders/create"

WhIdle == [pc |-> "idle", status |-> 0, topic |-> NULL, order |-> << >>,
           signed |-> FALSE,
           \* history: the notification insert returned an error; the place
           \* of a stored delivery among the deliveries in order of arrival
           insertError |-> FALSE, seq |-> 0]

WhDone(d, st, signed) ==
    wh' = [wh EXCEPT ![d] = [WhIdle EXCEPT !.pc = "done", !.status = st,
                                           !.signed = signed]]

\* The claim's own reading of "validly signed" (history, not used by the
\* handler): a header is present and is the digest of this body under the
\* configured secret.
ValidlySigned(secret, header, body) ==
    /\ secret # NULL
    /\ header # << >>
    /\ header[1].key = secret
    /\ header[1].msg = body

\* lines 16-42: read the body and the headers, verify, parse, branch on topic.
WhReceive(d) ==
    /\ wh[d].pc = "idle"
    /\ \E p \in Payloads, j \in BOOLEAN, topic \in Topics :
         LET body == [json |-> j, payload |-> p] IN
         \E header \in Headers(body) :
           LET signed == ValidlySigned(webhookSecret, header, body) IN
           IF ~SignatureAccepted(webhookSecret, header, body)
           THEN WhDone(d, 401, signed)
           ELSE IF ~body.json
           THEN WhDone(d, 500, signed)                 \* JSON.parse throws
           ELSE IF StoresOrder(topic)
           THEN wh' = [wh EXCEPT ![d] =
                          [WhIdle EXCEPT !.pc = "upsert", !.topic = topic,
                                         !.order = <<body.payload>>,
                                         !.signed = signed,
                                         !.seq = 1 + Cardinality(
                                             {e \in Deliveries : wh[e].pc # "idle"})]]
           ELSE wh' = [wh EXCEPT ![d] =
                          [WhIdle EXCEPT !.pc = "done", !.status = 200,
                                         !.topic = topic, !.signed = signed]]
    /\ UNCHANGED <<shopify_orders, notifications, webhookSecret,
                   whWrites, whUpserts>>

\* lines 43-56 (and 69-74 for orders/updated): the upsert and its error check.
WhUpsert(d) ==
    /\ wh[d].pc = "upsert"
    /\ LET o == wh[d].order[1] IN
       \E dbError \in BOOLEAN :
         IF dbError \/ ~ShopifyRowAccepted(OrderRow(o))
         THEN /\ wh' = [wh EXCEPT ![d].pc = "done", ![d].status = 500]
              /\ UNCHANGED <<shopify_orders, whWrites, whUpserts>>
         ELSE /\ shopify_orders' = UpsertById(shopify_orders, OrderRow(o))
              /\ whWrites' = whWrites \cup {<<d, "shopify_orders">>}
              /\ whUpserts' = Append(whUpserts, d)
              /\ IF NotifiesNewOrder(wh[d].topic)
                 THEN wh' = [wh EXCEPT ![d].pc = "notify"]
                 ELSE wh' = [wh EXCEPT ![d].pc = "done", ![d].status = 200]
    /\ UNCHANGED <<notifications, webhookSecret>>

\* lines 59-74: the notification of a new order, then the 200 response.  The
\* result of the insert is not looked at: when the datastore returns an error
\* no row is written and the response is the same.
WhNotify(d) ==
    /\ wh[d].pc = "notify"
    /\ \/ /\ notifications' = Append(notifications,
                                     NewOrderNotification(wh[d].order[1]))
          /\ whWrites' = whWrites \cup {<<d, "notifications">>}
          /\ wh' = [wh EXCEPT ![d].pc = "done", ![d].status = 200]
       \/ /\ UNCHANGED <<notifications, whWrites>>
          /\ wh' = [wh EXCEPT ![d].pc = "done", ![d].status = 200,
                              ![d].insertError = TRUE]
    /\ UNCHANGED <<shopify_orders, webhookSecret, whUpserts>>

whVars == <<shopify_orders, webhookSecret, wh, whWrites, whUpserts>>

WhInit ==
    /\ shopify_orders = << >>
    /\ webhookSecret \in {NULL, "k1"}
    /\ wh = [d \in Deliveries |-> WhIdle]
    /\ whWrites = {}
    /\ whUpserts = << >>

WhStep == \E d \in Deliveries : WhReceive(d) \/ WhUpsert(d) \/ WhNotify(d)

(***************************************************************************)
(* SPY integration: inputs                                                 *)
(***************************************************************************)
SecretKeys == {"SPY_TOKEN", "SPY_USERNAME", "SPY_PASSWORD", "SPY_API_URL"}
CredentialKeys == {"SPY_USERNAME", "SPY_PASSWORD", "SPY_API_URL"}

\* What an admin may type into the credential form, per key.
CredentialSets ==
    { [SPY_USERNAME |-> "u1", SPY_PASSWORD |-> "p1", SPY_API_URL |-> "url1"],
      [SPY_USERNAME |-> "u2", SPY_PASSWORD |-> "p2", SPY_API_URL |-> "url2"] }

\* Bearer tokens the SPY login may hand out.
TokenValues == {"tokA", "tokB"}

\* The caller of a function: no session, or a user with a row in users of
\* the given role, or a user with no row.
Callers == {"anon", "sales", "warehouse", "admin", "noprofile"}

\* (mutant) any signed-in user passes: the role is not looked at.
AuthStatus_AnyUser(caller) == IF caller = "anon" THEN 401 ELSE 0

\* lines 36-61 of spy-sync-orders (the same code opens spy-sync-inventory and
\* spy-admin): 401 without a user, 403 unless the users row says admin, else 0.
AuthStatus(caller) ==
    IF caller = "anon" THEN 401
    ELSE IF caller # "admin" THEN 403
    ELSE 0

\* Records of the SPY orders API.
SpyOrderPool ==
    { [order_number |-> n, created_at |-> <<1>>, total_amount |-> <<a>>] :
          n \in 1..2, a \in {5} }

\* Records of the SPY stock API.
SpyVariantPool ==
    { [sku |-> k, name |-> "n", stock_level |-> q] : k \in {"s1", "s2"}, q \in {0, 2} }

\* A reply of each API with one record more than the responses' errors hold
\* (errors.slice(0, 10)).
LongSkus == <<"s1", "s2", "s3", "s4", "s5", "s6", "s7", "s8", "s9", "s10", "s11">>
LongOrderBatch ==
    [k \in 1..Len(LongSkus) |->
        [order_number |-> k, created_at |-> <<1>>, total_amount |-> <<5>>]]
LongVariantBatch ==
    [k \in 1..Len(LongSkus) |-> [sku |-> LongSkus[k], name |-> "n", stock_level |-> 0]]

RECURSIVE SeqsUpTo(_, _)
SeqsUpTo(S, n) ==
    IF n = 0 THEN {<< >>}
    ELSE LET shorter == SeqsUpTo(S, n - 1) IN
         shorter \cup {Append(q, x) : q \in {r \in shorter : Len(r) = n - 1}, x \in S}

(***************************************************************************)
(* The secrets table                                                       *)
(***************************************************************************)
HasSecret(tbl, k) == tbl[k] # << >>
SecretValue(tbl, k) == IF HasSecret(tbl, k) THEN tbl[k][1].value ELSE NULL

\* upsert({key, value, expires_at, updated_at}, {onConflict: 'key'})
UpsertSecretWithExpiry(tbl, k, v, exp, t) ==
    [tbl EXCEPT ![k] = <<[value |-> v, expires_at |-> <<exp>>, updated_at |-> t]>>]

\* (mutant) storing a credential drops the token obtained with the old ones.
UpsertSecretValue_DropsToken(tbl, k, v, t) ==
    [tbl EXCEPT ![k] =
        <<[value |-> v,
           expires_at |-> IF HasSecret(tbl, k) THEN tbl[k][1].expires_at ELSE << >>,
           updated_at |-> t]>>,
                !["SPY_TOKEN"] = << >>]

\* upsert({key, value, updated_at}, {onConflict: 'key'}): expires_at is not
\* among the columns sent, so a stored one stays and a new row gets NULL.
UpsertSecretValue(tbl, k, v, t) ==
    [tbl EXCEPT ![k] =
        <<[value |-> v,
           expires_at |-> IF HasSecret(tbl, k) THEN tbl[k][1].expires_at ELSE << >>,
           updated_at |-> t]>>]

\* new Date(tokenSecret.expires_at) < new Date(), guarded by expires_at && ...
\* (mutant) the comparison turned around.
TokenExpired_Reversed(exp, t) == exp # << >> /\ exp[1] > t

\* (mutant) a token without expires_at counts as expired.
TokenExpired_NullIsExpired(exp, t) == exp = << >> \/ exp[1] < t

\* spy-sync-orders lines 89-90, spy-sync-inventory lines 88-89.
TokenExpired(exp, t) == exp # << >> /\ exp[1] < t

\* What the claims call an expired stored token (history only).
StoredTokenExpired ==
    /\ HasSecret(secrets, "SPY_TOKEN")
    /\ secrets["SPY_TOKEN"][1].expires_at # << >>
    /\ secrets["SPY_TOKEN"][1].expires_at[1] < now

(***************************************************************************)
(* spy-login-refresh                                                       *)
(***************************************************************************)
\* expiresAt.setHours(expiresAt.getHours() + 1)
TokenLifetime == 1

\* (mutant) the expiry is stored as the login time itself.
LoginExpiry_NoLifetime(t) == t

\* lines 61-62
LoginExpiry(t) == t + TokenLifetime

LgIdle == [pc |-> "idle", status |-> 0, creds |-> << >>, token |-> NULL,
           logins |-> 0, token_valid |-> FALSE, error |-> NULL,
           via |-> "direct",
           expiresAt |-> << >>, resp |-> << >>,
           \* history: was the token this run replaced an expired one; the
           \* SPY_TOKEN row the run found; how the smoke test ended
           replacedExpired |-> FALSE, found |-> << >>, testReply |-> NULL]

\* lines 15-35: read the three credentials.
LgStart(via) ==
    /\ lg.pc \in {"idle", "done"}
    /\ \E credError \in BOOLEAN :
         LET run == [LgIdle EXCEPT !.via = via, !.found = secrets["SPY_TOKEN"]] IN
         IF credError
         THEN lg' = [run EXCEPT !.pc = "fail", !.error = "credError"]
         ELSE IF \E k \in CredentialKeys : ~HasSecret(secrets, k)
         THEN lg' = [run EXCEPT !.pc = "fail", !.error = "Missing SpySystem credentials"]
         ELSE lg' = [run EXCEPT !.pc = "login",
                         !.creds = <<[k \in CredentialKeys |-> SecretValue(secrets, k)]>>]
    /\ UNCHANGED <<notifications, secrets, spy_orders, products,
                   inventory_snapshots, now>>

\* lines 37-58: POST /auth/login.
LgLogin ==
    /\ lg.pc = "login"
    /\ \E reply \in {"non2xx", "notoken"} \cup TokenValues :
         IF reply = "non2xx"
         THEN lg' = [lg EXCEPT !.pc = "fail", !.logins = @ + 1,
                               !.error = "SpySystem login failed"]
         ELSE IF reply = "notoken"
         THEN lg' = [lg EXCEPT !.pc = "fail", !.logins = @ + 1,
                               !.error = "No token received from SpySystem"]
         ELSE lg' = [lg EXCEPT !.pc = "store", !.logins = @ + 1, !.token = reply]
    /\ UNCHANGED <<notifications, secrets, spy_orders, products,
                   inventory_snapshots, now>>

\* lines 60-76: the token is stored with now + 1 hour.
LgStore ==
    /\ lg.pc = "store"
    /\ \E updateError \in BOOLEAN :
         IF updateError
         THEN /\ lg' = [lg EXCEPT !.pc = "fail", !.error = "updateError"]
              /\ UNCHANGED secrets
         ELSE /\ secrets' = UpsertSecretWithExpiry(secrets, "SPY_TOKEN", lg.token,
                                                   LoginExpiry(now), now)
              /\ lg' = [lg EXCEPT !.pc = "test", !.replacedExpired = StoredTokenExpired,
                                  !.expiresAt = <<LoginExpiry(now)>>]
    /\ UNCHANGED <<notifications, spy_orders, products, inventory_snapshots,
                   now>>

\* lines 88-95: the body of the 200 response.
RefreshResponse(isValid, expiresAt) ==
    [success |-> TRUE, token_refreshed |-> TRUE, expires_at |-> expiresAt,
     token_valid |-> isValid]

\* lines 78-99: the smoke test and the 200 response; a fetch that gets no
\* reply throws into the catch block.
LgTest ==
    /\ lg.pc = "test"
    /\ \E reply \in {"ok", "non2xx", "throw"} :
         IF reply = "throw"
         THEN lg' = [lg EXCEPT !.pc = "fail", !.error = "fetch failed",
                               !.testReply = reply]
         ELSE lg' = [lg EXCEPT !.pc = "done", !.status = 200,
                               !.token_valid = (reply = "ok"), !.testReply = reply,
                               !.resp = <<RefreshResponse(reply = "ok", lg.expiresAt)>>]
    /\ UNCHANGED <<notifications, secrets, spy_orders, products,
                   inventory_snapshots, now>>

\* (mutant) the failure is reported as a warning.
LoginFailedNotification_Warning(error) ==
    [title |-> "SpySystem Login Failed", body |-> [error |-> error], type |-> "warning"]

\* lines 110-116
LoginFailedNotification(error) ==
    [title |-> "SpySystem Login Failed", body |-> [error |-> error], type |-> "error"]

\* lines 101-128: the catch block.
LgFail ==
    /\ lg.pc = "fail"
    /\ Len(notifications) < MaxNotifications
    /\ notifications' = Append(notifications, LoginFailedNotification(lg.error))
    /\ lg' = [lg EXCEPT !.pc = "done", !.status = 500]
    /\ UNCHANGED <<secrets, spy_orders, products, inventory_snapshots, now>>

(***************************************************************************)
(* spy-sync-orders                                                         *)
(***************************************************************************)
\* errors.slice(0, 10)
ErrorsCap == 10

FirstN(q, n) == SubSeq(q, 1, IF Len(q) < n THEN Len(q) ELSE n)

OsIdle == [pc |-> "idle", status |-> 0, caller |-> "anon", via |-> "direct",
           token |-> NULL, apiUrl |-> NULL,
           orders |-> << >>, i |-> 1, synced |-> 0, errorCount |-> 0,
           errors |-> << >>,
           \* history: was the stored token expired / absent when it was read,
           \* the API calls made, the outcome of each upsert, the rows written
           expiredAtRead |-> FALSE, absentAtRead |-> FALSE, apiCalls |-> 0,
           outcomes |-> << >>, notified |-> << >>, secretReads |-> 0,
           urlAbsentAtRead |-> FALSE,
           \* history: the key of each record a pass of the loop began on;
           \* the upstream failure the run met outside the loop
           attempted |-> << >>, upstream |-> "none"]

\* lines 24-98: authorisation, then the token and the API URL are read and
\* the token's expiry is checked.
OsStart(caller, via) ==
    /\ os.pc \in {"idle", "done"}
    /\ LET run == [OsIdle EXCEPT !.caller = caller, !.via = via]
           token == SecretValue(secrets, "SPY_TOKEN")
           apiUrl == SecretValue(secrets, "SPY_API_URL")
           exp == IF HasSecret(secrets, "SPY_TOKEN")
                  THEN secrets["SPY_TOKEN"][1].expires_at ELSE << >>
       IN
       IF AuthStatus(caller) # 0
       THEN os' = [run EXCEPT !.pc = "done", !.status = AuthStatus(caller)]
       ELSE LET seen == [run EXCEPT !.expiredAtRead = StoredTokenExpired,
                                    !.absentAtRead = (token = NULL),
                                    !.urlAbsentAtRead = (apiUrl = NULL),
                                    !.secretReads = 1] IN
            IF token = NULL \/ apiUrl = NULL
            THEN os' = [seen EXCEPT !.pc = "done", !.status = 400]
            ELSE IF TokenExpired(exp, now)
            THEN os' = [seen EXCEPT !.pc = "done", !.status = 400]
            ELSE os' = [seen EXCEPT !.pc = "fetch", !.token = token, !.apiUrl = apiUrl]
    /\ UNCHANGED <<notifications, secrets, spy_orders, products,
                   inventory_snapshots, now>>

\* lines 100-123: GET /orders with the bearer token.
OsFetch ==
    /\ os.pc = "fetch"
    /\ \/ os' = [os EXCEPT !.pc = "done", !.status = 500, !.apiCalls = @ + 1,
                           !.upstream = "spy"]
       \/ \E orders \in SeqsUpTo(SpyOrderPool, MaxOrders) \cup {LongOrderBatch} :
            os' = [os EXCEPT !.pc = IF orders = << >> THEN "notify" ELSE "upsert",
                             !.apiCalls = @ + 1, !.orders = orders]
    /\ UNCHANGED <<notifications, secrets, spy_orders, products,
                   inventory_snapshots, now>>

\* lines 134-138
SpyOrderRow(o) ==
    [order_number |-> o.order_number, created_at |-> o.created_at,
     total_amount |-> o.total_amount, json |-> o]

\* upsert(row, {onConflict: 'order_number'})
UpsertByOrderNumber(table, row) ==
    IF \E k \in 1..Len(table) : table[k].order_number = row.order_number
    THEN [k \in 1..Len(table) |->
             IF table[k].order_number = row.order_number THEN row ELSE table[k]]
    ELSE Append(table, row)

\* lines 130-153: one pass of the loop.  The upsert succeeds, returns an
\* error, or throws.
OsUpsert ==
    /\ os.pc = "upsert"
    /\ LET o == os.orders[os.i]
           next == IF os.i = Len(os.orders) THEN "notify" ELSE "upsert"
       IN
       \E outcome \in {"ok", "error", "throw"} :
         IF outcome = "ok"
         THEN /\ spy_orders' = UpsertByOrderNumber(spy_orders, SpyOrderRow(o))
              /\ os' = [os EXCEPT !.pc = next, !.i = @ + 1, !.synced = @ + 1,
                                  !.outcomes = Append(@, outcome),
                                  !.attempted = Append(@, o.order_number)]
         ELSE /\ UNCHANGED spy_orders
              /\ os' = [os EXCEPT !.pc = next, !.i = @ + 1, !.errorCount = @ + 1,
                                  !.errors = Append(@, o.order_number),
                                  !.outcomes = Append(@, outcome),
                                  !.attempted = Append(@, o.order_number)]
    /\ UNCHANGED <<notifications, secrets, products, inventory_snapshots,
                   now>>

\* (mutant) a warning only from the second error on.
SyncNotificationType_OffByOne(errorCount) ==
    IF errorCount > 1 THEN "warning" ELSE "success"

\* line 161 (spy-sync-inventory line 174)
SyncNotificationType(errorCount) ==
    IF errorCount > 0 THEN "warning" ELSE "success"

\* lines 158-162
OrdersSyncNotification(run) ==
    [title |-> "SPY Orders Sync Complete",
     body |-> [synced |-> run.synced, errors |-> run.errorCount],
     type |-> SyncNotificationType(run.errorCount)]

\* (mutant) the response carries every error text.
OrdersSyncResponse_Uncapped(run) ==
    [success |-> TRUE, synced_count |-> run.synced, error_count |-> run.errorCount,
     errors |-> run.errors]

\* lines 165-175: the body of the 200 response.
OrdersSyncResponse(run) ==
    [success |-> TRUE, synced_count |-> run.synced, error_count |-> run.errorCount,
     errors |-> FirstN(run.errors, ErrorsCap)]

\* lines 155-179: the summary notification and the response.
OsNotify ==
    /\ os.pc = "notify"
    /\ Len(notifications) < MaxNotifications
    /\ notifications' = Append(notifications, OrdersSyncNotification(os))
    /\ os' = [os EXCEPT !.pc = "done", !.status = 200,
                        !.notified = Append(@, OrdersSyncNotification(os))]
    /\ UNCHANGED <<secrets, spy_orders, products, inventory_snapshots, now>>

(***************************************************************************)
(* spy-sync-inventory                                                      *)
(***************************************************************************)
IvIdle == [pc |-> "idle", status |-> 0, caller |-> "anon", via |-> "direct",
           token |-> NULL, apiUrl |-> NULL,
           variants |-> << >>, i |-> 1, productId |-> 0,
           syncedProducts |-> 0, syncedSnapshots |-> 0, errorCount |-> 0,
           errors |-> << >>,
           expiredAtRead |-> FALSE, absentAtRead |-> FALSE, apiCalls |-> 0,
           outcomes |-> << >>, notified |-> << >>, secretReads |-> 0,
           urlAbsentAtRead |-> FALSE,
           \* history: the key of each record a pass of the loop began on;
           \* the upstream failure the run met outside the loop
           attempted |-> << >>, upstream |-> "none"]

\* lines 23-97: the same opening as spy-sync-orders.
IvStart(caller, via) ==
    /\ iv.pc \in {"idle", "done"}
    /\ LET run == [IvIdle EXCEPT !.caller = caller, !.via = via]
           token == SecretValue(secrets, "SPY_TOKEN")
           apiUrl == SecretValue(secrets, "SPY_API_URL")
           exp == IF HasSecret(secrets, "SPY_TOKEN")
                  THEN secrets["SPY_TOKEN"][1].expires_at ELSE << >>
       IN
       IF AuthStatus(caller) # 0
       THEN iv' = [run EXCEPT !.pc = "done", !.status = AuthStatus(caller)]
       ELSE LET seen == [run EXCEPT !.expiredAtRead = StoredTokenExpired,
                                    !.absentAtRead = (token = NULL),
                                    !.urlAbsentAtRead = (apiUrl = NULL),
                                    !.secretReads = 1] IN
            IF token = NULL \/ apiUrl = NULL
            THEN iv' = [seen EXCEPT !.pc = "done", !.status = 400]
            ELSE IF TokenExpired(exp, now)
            THEN iv' = [seen EXCEPT !.pc = "done", !.status = 400]
            ELSE iv' = [seen EXCEPT !.pc = "fetch", !.token = token, !.apiUrl = apiUrl]
    /\ UNCHANGED <<notifications, secrets, spy_orders, products,
                   inventory_snapshots, now>>

\* lines 99-115: GET /variants/stock with the bearer token.  (A short reply
\* is no longer than the room left in inventory_snapshots.)
IvFetch ==
    /\ iv.pc = "fetch"
    /\ \/ iv' = [iv EXCEPT !.pc = "done", !.status = 500, !.apiCalls = @ + 1,
                           !.upstream = "spy"]
       \/ \E variants \in SeqsUpTo(SpyVariantPool, MaxVariants) \cup {LongVariantBatch} :
            /\ Len(variants) <= MaxVariants =>
                   Len(inventory_snapshots) + Len(variants) <= MaxSnapshots
            /\ iv' = [iv EXCEPT !.pc = IF variants = << >> THEN "notify" ELSE "product",
                                !.apiCalls = @ + 1, !.variants = variants]
    /\ UNCHANGED <<notifications, secrets, spy_orders, products,
                   inventory_snapshots, now>>

ProductIdOfSku(table, sku) ==
    LET k == CHOOSE k \in 1..Len(table) : table[k].sku = sku IN table[k].id

\* upsert({sku, name, updated_at}, {onConflict: 'sku'}): a new product gets
\* the next identity and min_stock's default 0 (schema lines 14-17).
UpsertBySku(table, v, t) ==
    IF \E k \in 1..Len(table) : table[k].sku = v.sku
    THEN [k \in 1..Len(table) |->
             IF table[k].sku = v.sku
             THEN [table[k] EXCEPT !.name = v.name, !.updated_at = t]
             ELSE table[k]]
    ELSE Append(table, [id |-> Len(table) + 1, sku |-> v.sku, name |-> v.name,
                        min_stock |-> <<0>>, updated_at |-> t])

\* lines 123-144: the product upsert of one pass of the loop.
IvProduct ==
    /\ iv.pc = "product"
    /\ LET v == iv.variants[iv.i]
           next == IF iv.i = Len(iv.variants) THEN "notify" ELSE "product"
       IN
       \E outcome \in {"ok", "error", "throw"} :
         IF outcome = "ok"
         THEN /\ products' = UpsertBySku(products, v, now)
              /\ iv' = [iv EXCEPT !.pc = "snapshot", !.syncedProducts = @ + 1,
                                  !.productId = ProductIdOfSku(products', v.sku),
                                  !.attempted = Append(@, v.sku)]
         ELSE /\ UNCHANGED products
              /\ iv' = [iv EXCEPT !.pc = next, !.i = @ + 1, !.errorCount = @ + 1,
                                  !.errors = Append(@, v.sku),
                                  !.outcomes = Append(@, "product_" \o outcome),
                                  !.attempted = Append(@, v.sku)]
    /\ UNCHANGED <<notifications, secrets, spy_orders, inventory_snapshots, now>>

\* (mutant) the insert keeps one reading per product: it replaces the
\* product's earlier reading.
InsertSnapshot_LatestOnly(table, row) ==
    LET Other(r) == r.product_id # row.product_id IN
    Append(SelectSeq(table, Other), row)

\* lines 147-153: insert({product_id, stock_level, taken_at}) adds a row.
InsertSnapshot(table, row) == Append(table, row)

\* lines 146-165: the snapshot insert of the same pass.
IvSnapshot ==
    /\ iv.pc = "snapshot"
    /\ LET v == iv.variants[iv.i]
           next == IF iv.i = Len(iv.variants) THEN "notify" ELSE "product"
       IN
       \E outcome \in {"ok", "error", "throw"} :
         IF outcome = "ok"
         THEN /\ inventory_snapshots' =
                    InsertSnapshot(inventory_snapshots,
                           [product_id |-> iv.productId, stock_level |-> v.stock_level,
                            taken_at |-> now])
              /\ iv' = [iv EXCEPT !.pc = next, !.i = @ + 1, !.syncedSnapshots = @ + 1,
                                  !.outcomes = Append(@, "ok")]
         ELSE /\ UNCHANGED inventory_snapshots
              /\ iv' = [iv EXCEPT !.pc = next, !.i = @ + 1, !.errorCount = @ + 1,
                                  !.errors = Append(@, v.sku),
                                  !.outcomes = Append(@, "snapshot_" \o outcome)]
    /\ UNCHANGED <<notifications, secrets, spy_orders, products, now>>

\* lines 171-175
InventorySyncNotification(run) ==
    [title |-> "SPY Inventory Sync Complete",
     body |-> [products |-> run.syncedProducts, snapshots |-> run.syncedSnapshots,
               errors |-> run.errorCount],
     type |-> SyncNotificationType(run.errorCount)]

\* (mutant) error_count counts the error details that are returned.
InventorySyncResponse_CountsDetails(run) ==
    [success |-> TRUE, synced_products |-> run.syncedProducts,
     synced_snapshots |-> run.syncedSnapshots,
     error_count |-> Len(FirstN(run.errors, ErrorsCap)),
     errors |-> FirstN(run.errors, ErrorsCap)]

\* lines 178-185: the body of the 200 response.
InventorySyncResponse(run) ==
    [success |-> TRUE, synced_products |-> run.syncedProducts,
     synced_snapshots |-> run.syncedSnapshots, error_count |-> run.errorCount,
     errors |-> FirstN(run.errors, ErrorsCap)]

\* lines 168-189: the summary notification and the response.
IvNotify ==
    /\ iv.pc = "notify"
    /\ Len(notifications) < MaxNotifications
    /\ notifications' = Append(notifications, InventorySyncNotification(iv))
    /\ iv' = [iv EXCEPT !.pc = "done", !.status = 200,
                        !.notified = Append(@, InventorySyncNotification(iv))]
    /\ UNCHANGED <<secrets, spy_orders, products, inventory_snapshots, now>>

(***************************************************************************)
(* spy-admin                                                               *)
(***************************************************************************)
AdminActions == {"get_status", "refresh_token", "sync_orders", "sync_inventory",
                 "update_credentials", "test_connection"}

\* .limit(10) of the recent notifications
RecentCap == 10

\* .like('title', '%SPY%'): LIKE is case sensitive, so of the titles the
\* handlers write these contain SPY ("SpySystem Login Failed" does not).
TitleLikeSPY(title) ==
    title \in {"SPY Orders Sync Complete", "SPY Inventory Sync Complete",
               "SPY Credentials Updated"}

RECURSIVE Reverse(_)
Reverse(q) == IF q = << >> THEN << >> ELSE Append(Reverse(Tail(q)), Head(q))

\* lines 267-272: the latest SPY notifications, newest first.
RecentSpyNotifications(notifs) ==
    LET IsSpy(n) == TitleLikeSPY(n.title) IN
    FirstN(Reverse(SelectSeq(notifs, IsSpy)), RecentCap)

\* (mutant) the status also returns the stored token.
StatusResponse_WithToken(sec, notifs, orders, prods) ==
    [success |-> TRUE,
     token_exists |-> HasSecret(sec, "SPY_TOKEN"),
     token |-> SecretValue(sec, "SPY_TOKEN"),
     orders_count |-> Len(orders),
     products_count |-> Len(prods)]

\* lines 259-297: select('key, expires_at, updated_at') and the response
\* built from it.  An absent expires_at / updated_at is << >>.
StatusResponse(sec, notifs, orders, prods) ==
    [success |-> TRUE,
     token_exists |-> HasSecret(sec, "SPY_TOKEN"),
     token_expires_at |-> IF HasSecret(sec, "SPY_TOKEN")
                          THEN sec["SPY_TOKEN"][1].expires_at ELSE << >>,
     token_updated_at |-> IF HasSecret(sec, "SPY_TOKEN")
                          THEN <<sec["SPY_TOKEN"][1].updated_at>> ELSE << >>,
     credentials_configured |-> \A k \in CredentialKeys : HasSecret(sec, k),
     orders_count |-> Len(orders),
     products_count |-> Len(prods),
     recent_notifications |-> RecentSpyNotifications(notifs)]

AdIdle == [pc |-> "idle", status |-> 0, caller |-> "anon", action |-> NULL,
           params |-> << >>, k |-> 1, resp |-> << >>,
           token |-> NULL, apiUrl |-> NULL,
           expiredAtRead |-> FALSE, absentAtRead |-> FALSE, apiCalls |-> 0,
           \* history: the reads of the secrets table; the upstream failure
           \* the run met ("db": the datastore returned an error, "spy": the
           \* SPY API replied non-2xx)
           secretReads |-> 0, upstream |-> "none",
           \* history: the request was invalid as input
           invalid |-> FALSE]

\* The parameters of update_credentials: a full set, or one with a field
\* left out (<< >>).
CredentialParams == {<<c>> : c \in CredentialSets} \cup {<< >>}

CredentialOrder == <<"SPY_USERNAME", "SPY_PASSWORD", "SPY_API_URL">>

\* (mutant) update_credentials never finds a field missing.
CredentialsMissing_Never(params) == FALSE

\* line 352: !username || !password || !api_url
CredentialsMissing(params) == params = << >>

\* The request is invalid as input: an action the switch does not know, or
\* update_credentials without all of its three fields.
InvalidInput(action, params) ==
    \/ action \notin AdminActions
    \/ action = "update_credentials" /\ params = << >>

\* lines 210-256 and the synchronous head of each case: the body is parsed,
\* the caller authorised, the action looked up.
AdStart(caller) ==
    /\ ad.pc \in {"idle", "done"}
    /\ \/ ad' = [AdIdle EXCEPT !.pc = "done", !.status = 500, !.caller = caller]
       \/ \E action \in AdminActions \cup {"bogus"}, params \in CredentialParams :
            LET run == [AdIdle EXCEPT !.caller = caller, !.action = action,
                                      !.invalid = InvalidInput(action, params)] IN
            IF AuthStatus(caller) # 0
            THEN ad' = [run EXCEPT !.pc = "done", !.status = AuthStatus(caller)]
            ELSE CASE action = "get_status" -> ad' = [run EXCEPT !.pc = "status"]
                   [] action = "refresh_token" -> ad' = [run EXCEPT !.pc = "call_login"]
                   [] action = "sync_orders" -> ad' = [run EXCEPT !.pc = "call_orders"]
                   [] action = "sync_inventory" ->
                          ad' = [run EXCEPT !.pc = "call_inventory"]
                   [] action = "update_credentials" ->
                          IF CredentialsMissing(params)
                          THEN ad' = [run EXCEPT !.pc = "done", !.status = 400]
                          ELSE ad' = [run EXCEPT !.pc = "cred", !.params = params]
                   [] action = "test_connection" ->
                          ad' = [run EXCEPT !.pc = "test_read"]
                   [] OTHER -> ad' = [run EXCEPT !.pc = "done", !.status = 400]
    /\ UNCHANGED <<notifications, secrets, spy_orders, products,
                   inventory_snapshots, now>>

\* lines 257-297: case 'get_status'.
AdStatus ==
    /\ ad.pc = "status"
    /\ ad' = [ad EXCEPT !.pc = "done", !.status = 200, !.secretReads = @ + 1,
                        !.resp = <<StatusResponse(secrets, notifications,
                                                  spy_orders, products)>>]
    /\ UNCHANGED <<notifications, secrets, spy_orders, products,
                   inventory_snapshots, now>>

\* lines 362-378: one of the three upserts, in the order username, password,
\* api_url.  The result of the upsert is not looked at: when the datastore
\* returns an error the secret stays as it was and the loop goes on.
AdCred ==
    /\ ad.pc = "cred"
    /\ LET key == CredentialOrder[ad.k]
           next == IF ad.k = Len(CredentialOrder) THEN "cred_notify" ELSE "cred"
       IN
       \/ /\ secrets' = UpsertSecretValue(secrets, key, ad.params[1][key], now)
          /\ ad' = [ad EXCEPT !.k = @ + 1, !.pc = next]
       \/ /\ UNCHANGED secrets
          /\ ad' = [ad EXCEPT !.k = @ + 1, !.pc = next, !.upstream = "db"]
    /\ UNCHANGED <<notifications, spy_orders, products, inventory_snapshots, now>>

\* lines 383-387
CredentialsUpdatedNotification ==
    [title |-> "SPY Credentials Updated", body |-> [updated |-> TRUE],
     type |-> "success"]

\* lines 380-395
AdCredNotify ==
    /\ ad.pc = "cred_notify"
    /\ Len(notifications) < MaxNotifications
    /\ notifications' = Append(notifications, CredentialsUpdatedNotification)
    /\ ad' = [ad EXCEPT !.pc = "done", !.status = 200]
    /\ UNCHANGED <<secrets, spy_orders, products, inventory_snapshots, now>>

\* lines 397-419: case 'test_connection' reads select('key, value') of the
\* token and the API URL; expires_at is not among the columns.
AdTestRead ==
    /\ ad.pc = "test_read"
    /\ LET token == SecretValue(secrets, "SPY_TOKEN")
           apiUrl == SecretValue(secrets, "SPY_API_URL")
           seen == [ad EXCEPT !.expiredAtRead = StoredTokenExpired,
                              !.absentAtRead = (token = NULL),
                              !.secretReads = @ + 1]
       IN
       IF token = NULL \/ apiUrl = NULL
       THEN ad' = [seen EXCEPT !.pc = "done", !.status = 400]
       ELSE ad' = [seen EXCEPT !.pc = "test_fetch", !.token = token, !.apiUrl = apiUrl]
    /\ UNCHANGED <<notifications, secrets, spy_orders, products,
                   inventory_snapshots, now>>

\* lines 421-435: GET /products?limit=1 with the bearer token.
AdTestFetch ==
    /\ ad.pc = "test_fetch"
    /\ \E ok \in BOOLEAN :
         ad' = [ad EXCEPT !.pc = "done", !.status = 200, !.apiCalls = @ + 1,
                          !.upstream = IF ok THEN "none" ELSE "spy",
                          !.resp = <<[success |-> ok]>>]
    /\ UNCHANGED <<notifications, secrets, spy_orders, products,
                   inventory_snapshots, now>>

\* lines 299-307, 315-324, 332-340: the dispatcher calls the function; the
\* syncs get the caller's Authorization header, the login the service key.
AdCallLogin ==
    /\ ad.pc = "call_login"
    /\ LgStart("admin")
    /\ ad' = [ad EXCEPT !.pc = "await_login"]

AdCallOrders ==
    /\ ad.pc = "call_orders"
    /\ OsStart(ad.caller, "admin")
    /\ ad' = [ad EXCEPT !.pc = "await_orders"]

AdCallInventory ==
    /\ ad.pc = "call_inventory"
    /\ IvStart(ad.caller, "admin")
    /\ ad' = [ad EXCEPT !.pc = "await_inventory"]

\* lines 309-313, 326-330, 342-346: the function's reply is passed on with
\* its status.
AdRelay ==
    /\ \/ ad.pc = "await_login" /\ lg.pc = "done" /\ lg.via = "admin"
          /\ ad' = [ad EXCEPT !.pc = "done", !.status = lg.status]
       \/ ad.pc = "await_orders" /\ os.pc = "done" /\ os.via = "admin"
          /\ ad' = [ad EXCEPT !.pc = "done", !.status = os.status]
       \/ ad.pc = "await_inventory" /\ iv.pc = "done" /\ iv.via = "admin"
          /\ ad' = [ad EXCEPT !.pc = "done", !.status = iv.status]
    /\ UNCHANGED <<notifications, secrets, spy_orders, products,
                   inventory_snapshots, now>>

(***************************************************************************)
(* Low stock: the five places that derive it                               *)
(***************************************************************************)
\* .slice(0, 20) of inventory-top20, .limit(20) of getProductSearch
Top20Cap == 20

\* a < b of JavaScript for a number a and a nullable number b (null is 0).
JsLess(a, b) == a < (IF b = << >> THEN 0 ELSE b[1])

\* The ways to list the row numbers I with the keys descending: any row of
\* the greatest key comes first.
RECURSIVE DescendingOrders(_, _)
DescendingOrders(I, keys) ==
    IF I = {} THEN {<< >>}
    ELSE UNION { { <<i>> \o q : q \in DescendingOrders(I \ {i}, keys) } :
                 i \in {j \in I : \A m \in I : keys[j] >= keys[m]} }

\* The orders in which a query with .order(key, {ascending: false}) may
\* return the rows: any order that is descending in the key.
Descending(rows, Key(_)) ==
    LET keys == [k \in 1..Len(rows) |-> Key(rows[k])] IN
    { [i \in 1..Len(rows) |-> rows[f[i]]] : f \in DescendingOrders(1..Len(rows), keys) }

ProductOfId(prods, id) == prods[CHOOSE k \in 1..Len(prods) : prods[k].id = id]

\* select stock_level, taken_at, products(id, sku, name, min_stock)
\* order by taken_at desc: the snapshots joined with their product.
SnapshotsNewestFirst(snaps, prods) ==
    LET TakenAt(r) == r.taken_at IN
    { [i \in 1..Len(q) |->
          [stock_level |-> q[i].stock_level, taken_at |-> q[i].taken_at,
           products |-> ProductOfId(prods, q[i].product_id)]] :
      q \in Descending(snaps, TakenAt) }

\* The item built from a joined snapshot (inventory-top20 lines 48-56,
\* getInventory lines 206-214).
InventoryItem(snapshot) ==
    [product_id |-> snapshot.products.id, sku |-> snapshot.products.sku,
     name |-> snapshot.products.name, stock_level |-> snapshot.stock_level,
     min_stock |-> snapshot.products.min_stock,
     last_updated |-> snapshot.taken_at,
     is_low_stock |-> JsLess(snapshot.stock_level, snapshot.products.min_stock)]

HasItemOf(items, id) == \E k \in 1..Len(items) : items[k].product_id = id

\* inventory-top20 lines 43-58: the first snapshot of each product.
RECURSIVE LatestByProduct(_, _)
LatestByProduct(data, acc) ==
    IF data = << >> THEN acc
    ELSE LatestByProduct(Tail(data),
             IF HasItemOf(acc, Head(data).products.id) THEN acc
             ELSE Append(acc, InventoryItem(Head(data))))

\* Array.prototype.sort((a, b) => a.stock_level - b.stock_level): stable.
RECURSIVE InsertByStock(_, _)
InsertByStock(sorted, x) ==
    IF sorted = << >> THEN <<x>>
    ELSE IF x.stock_level < Head(sorted).stock_level THEN <<x>> \o sorted
    ELSE <<Head(sorted)>> \o InsertByStock(Tail(sorted), x)

RECURSIVE SortByStock(_)
SortByStock(q) ==
    IF q = << >> THEN << >>
    ELSE InsertByStock(SortByStock(SubSeq(q, 1, Len(q) - 1)), q[Len(q)])

\* (mutant) the items are cut to twenty without being sorted.
Top20_Unsorted(data) == FirstN(LatestByProduct(data, << >>), Top20Cap)

\* inventory-top20 lines 61-63
Top20(data) == FirstN(SortByStock(LatestByProduct(data, << >>)), Top20Cap)

\* getInventory lines 199-221 (part_000): a product is recorded at its first
\* snapshot that passes !low_stock_only || item.is_low_stock.
RECURSIVE GetInventoryItems(_, _, _)
GetInventoryItems(data, low_stock_only, acc) ==
    IF data = << >> THEN acc
    ELSE LET item == InventoryItem(Head(data)) IN
         GetInventoryItems(Tail(data), low_stock_only,
             IF ~HasItemOf(acc, item.product_id)
                /\ (~low_stock_only \/ item.is_low_stock)
             THEN Append(acc, item) ELSE acc)

\* inventory-check lines 443-463 (ai-ask/index.ts) and weekly-report lines
\* 63-80: the first snapshot of each product is looked at once, and listed
\* when it is below the minimum.  (sku is UNIQUE: grouping by sku, as the
\* weekly report does, is grouping by product.)
RECURSIVE LowStockProducts(_, _, _)
LowStockProducts(data, seen, acc) ==
    IF data = << >> THEN acc
    ELSE LET sn == Head(data) IN
         IF sn.products.id \in seen THEN LowStockProducts(Tail(data), seen, acc)
         ELSE LowStockProducts(Tail(data), seen \cup {sn.products.id},
                  IF JsLess(sn.stock_level, sn.products.min_stock)
                  THEN Append(acc, [product_id |-> sn.products.id, sku |-> sn.products.sku,
                                    name |-> sn.products.name,
                                    stock_level |-> sn.stock_level,
                                    min_stock |-> sn.products.min_stock])
                  ELSE acc)

\* getProductSearch lines 282-302 (part_000): the first snapshot of the
\* product in the list newest first; no snapshot counts as stock 0.
FirstStockOf(snapshots, id) ==
    IF \E k \in 1..Len(snapshots) : snapshots[k].product_id = id
    THEN <<snapshots[CHOOSE k \in 1..Len(snapshots) :
                        /\ snapshots[k].product_id = id
                        /\ \A j \in 1..(k - 1) : snapshots[j].product_id # id]>>
    ELSE << >>

ProductWithStock(product, snapshots) ==
    LET stock == FirstStockOf(snapshots, product.id)
        level == IF stock = << >> THEN 0 ELSE stock[1].stock_level
    IN [product_id |-> product.id, sku |-> product.sku, name |-> product.name,
        min_stock |-> product.min_stock, current_stock |-> level,
        stock_last_updated |-> IF stock = << >> THEN << >> ELSE <<stock[1].taken_at>>,
        is_low_stock |-> JsLess(level, product.min_stock)]

\* sku.ilike.%term% or name.ilike.%term% over the skus and names of the model.
SearchTerms == {"s", "s1", "zz"}
Matches(term, product) ==
    \/ term = "s"
    \/ term = product.sku

\* getInventory lines 178-222 (part_000); the sku filter keeps the snapshots of that
\* product.
GetInventoryResults(args, prods, snaps) ==
    LET OfSku(r) == args.product_sku = NULL
                    \/ ProductOfId(prods, r.product_id).sku = args.product_sku IN
    { GetInventoryItems(data, args.low_stock_only, << >>) :
        data \in SnapshotsNewestFirst(SelectSeq(snaps, OfSku), prods) }

\* getProductSearch lines 254-305 (part_000).
GetProductSearchResults(args, prods, snaps) ==
    LET Hit(pr) == Matches(args.search_term, pr)
        UpdatedAt(pr) == pr.updated_at
        TakenAt(r) == r.taken_at
        OfHit(r) == Hit(ProductOfId(prods, r.product_id))
        Plain(pr) == [product_id |-> pr.id, sku |-> pr.sku, name |-> pr.name,
                      min_stock |-> pr.min_stock]
    IN {[error |-> "queryError"]} \cup
       { [search_term |-> args.search_term,
          products |-> LET result == FirstN(found, Top20Cap) IN
                       [k \in 1..Len(result) |->
                           IF args.include_stock
                           THEN ProductWithStock(result[k], snapshots)
                           ELSE Plain(result[k])]] :
         found \in Descending(SelectSeq(prods, Hit), UpdatedAt),
         snapshots \in Descending(SelectSeq(snaps, OfHit), TakenAt) }

IqIdle == [place |-> "idle", status |-> 0, sku |-> NULL, low_stock_only |-> FALSE,
           term |-> NULL, items |-> << >>]

\* inventory-top20: the whole handler.
IqTop20 ==
    /\ \/ iq' = [IqIdle EXCEPT !.place = "top20", !.status = 500]
       \/ \E data \in SnapshotsNewestFirst(inventory_snapshots, products) :
            iq' = [IqIdle EXCEPT !.place = "top20", !.status = 200,
                                 !.items = Top20(data)]
    /\ UNCHANGED <<notifications, secrets, spy_orders, products,
                   inventory_snapshots, now>>

\* The assistant's getInventory(product_sku, low_stock_only) on its own.
IqGetInventory ==
    /\ \E sku \in {NULL, "s1"}, low_stock_only \in BOOLEAN :
         \E items \in GetInventoryResults([product_sku |-> sku,
                                           low_stock_only |-> low_stock_only],
                                          products, inventory_snapshots) :
            iq' = [IqIdle EXCEPT !.place = "getInventory", !.status = 200,
                                 !.sku = sku, !.low_stock_only = low_stock_only,
                                 !.items = items]
    /\ UNCHANGED <<notifications, secrets, spy_orders, products,
                   inventory_snapshots, now>>

\* The assistant's getProductSearch(search_term, include_stock = true) on
\* its own.
IqProductSearch ==
    /\ \E term \in SearchTerms :
         \E r \in GetProductSearchResults([search_term |-> term, include_stock |-> TRUE],
                                          products, inventory_snapshots) :
            IF "error" \in DOMAIN r
            THEN iq' = [IqIdle EXCEPT !.place = "getProductSearch", !.status = 500,
                                      !.term = term]
            ELSE iq' = [IqIdle EXCEPT !.place = "getProductSearch", !.status = 200,
                                      !.term = term, !.items = r.products]
    /\ UNCHANGED <<notifications, secrets, spy_orders, products,
                   inventory_snapshots, now>>

\* inventory-check lines 466-470
LowStockAlert(item) ==
    [title |-> "Low Stock Alert",
     body |-> [sku |-> item.sku, current |-> item.stock_level, min |-> item.min_stock],
     type |-> "warning"]

\* inventory-check: the whole handler; a failed insert of the alerts is
\* logged and the response is still 200.
IqInventoryCheck ==
    /\ \/ /\ iq' = [IqIdle EXCEPT !.place = "inventory-check", !.status = 500]
          /\ UNCHANGED notifications
       \/ \E data \in SnapshotsNewestFirst(inventory_snapshots, products),
             insertFails \in BOOLEAN :
            LET low == LowStockProducts(data, {}, << >>) IN
            /\ Len(notifications) + Len(low) <= MaxNotifications
            /\ iq' = [IqIdle EXCEPT !.place = "inventory-check", !.status = 200,
                                    !.items = low]
            /\ notifications' =
                   IF insertFails THEN notifications
                   ELSE notifications \o [k \in 1..Len(low) |-> LowStockAlert(low[k])]
    /\ UNCHANGED <<secrets, spy_orders, products, inventory_snapshots, now>>

\* weekly-report lines 129-136
WeeklyReportNotification ==
    [title |-> "Weekly Report Generated", body |-> [generated |-> TRUE],
     type |-> "success"]

\* weekly-report: the low-stock list of the report (lines 47-80), the two
\* uploads (lines 104-123) and the notification.  The sales figures and the
\* text of the report are not modelled.
IqWeeklyReport ==
    /\ \E data \in SnapshotsNewestFirst(inventory_snapshots, products),
          uploadFails \in BOOLEAN :
         IF uploadFails
         THEN /\ iq' = [IqIdle EXCEPT !.place = "weekly-report", !.status = 500]
              /\ UNCHANGED notifications
         ELSE /\ Len(notifications) < MaxNotifications
              /\ iq' = [IqIdle EXCEPT !.place = "weekly-report", !.status = 200,
                                      !.items = LowStockProducts(data, {}, << >>)]
              /\ notifications' = Append(notifications, WeeklyReportNotification)
    /\ UNCHANGED <<secrets, spy_orders, products, inventory_snapshots, now>>

(***************************************************************************)
(* sales-summary                                                           *)
(***************************************************************************)
\* The clock counts hours; hour 0 is midnight of Wednesday 1 January 2025.
HoursPerDay == 24
DaysPerWeek == 7

DayOf(t) == t \div HoursPerDay
\* Date.prototype.getDay: 0 is Sunday.
GetDay(t) == (DayOf(t) + 3) % DaysPerWeek

\* The first days of January, February and March 2025.
MonthStarts == {0, 31, 59}
FirstOfMonth(day) ==
    CHOOSE m \in MonthStarts : m <= day /\ \A m2 \in MonthStarts : m2 <= day => m2 <= m

\* (mutant) the week is counted forward from today.
StartDate_WeekAhead(period, t) ==
    CASE period = "week" -> (DayOf(t) + GetDay(t)) * HoursPerDay
      [] period = "month" -> FirstOfMonth(DayOf(t)) * HoursPerDay
      [] OTHER -> DayOf(t) * HoursPerDay

\* sales-summary lines 319-337 (the same switch opens getSales, part_000
\* lines 125-142): midnight today, midnight of the last Sunday, midnight of
\* the first of the month.
StartDate(period, t) ==
    CASE period = "week" -> (DayOf(t) - GetDay(t)) * HoursPerDay
      [] period = "month" -> FirstOfMonth(DayOf(t)) * HoursPerDay
      [] OTHER -> DayOf(t) * HoursPerDay

\* .gte('created_at', startDate): rows without created_at never match.
CreatedSince(rows, start) ==
    LET Since(r) == r.created_at # << >> /\ r.created_at[1] >= start IN
    SelectSeq(rows, Since)

\* Number(order.total_amount) || 0
NumberOrZero(x) == IF x = << >> THEN 0 ELSE x[1]

\* reduce((sum, order) => sum + (Number(order.total_amount) || 0), 0)
RECURSIVE TotalAmount(_)
TotalAmount(rows) ==
    IF rows = << >> THEN 0
    ELSE NumberOrZero(Head(rows).total_amount) + TotalAmount(Tail(rows))

\* lines 359-375
SalesSummary(period, start, t, shopifyOrders, spyOrders) ==
    [period |-> period, startDate |-> start, endDate |-> t,
     shopify |-> [total |-> TotalAmount(shopifyOrders),
                  orderCount |-> Len(shopifyOrders)],
     spy |-> [total |-> TotalAmount(spyOrders), orderCount |-> Len(spyOrders)],
     combined |-> [total |-> TotalAmount(shopifyOrders) + TotalAmount(spyOrders),
                   orderCount |-> Len(shopifyOrders) + Len(spyOrders)]]

SsIdle == [pc |-> "idle", status |-> 0, period |-> NULL, at |-> 0, start |-> 0,
           shopifyOrders |-> << >>, spyOrders |-> << >>, summary |-> << >>]

\* ?period= of the request: absent, or a text.
PeriodParams == {NULL, "", "day", "week", "month", "year"}

\* lines 306-337: the period is read (default day) and validated, the start
\* of the range computed from the clock.
SsRead(param) ==
    LET period == IF param \in {NULL, ""} THEN "day" ELSE param IN
    IF period \notin {"day", "week", "month"}
    THEN [SsIdle EXCEPT !.pc = "done", !.status = 400, !.period = period, !.at = now]
    ELSE [SsIdle EXCEPT !.pc = "shopify", !.period = period, !.at = now,
                        !.start = StartDate(period, now)]

SsStart ==
    /\ ss.pc \in {"idle", "done"}
    /\ \E param \in PeriodParams : ss' = SsRead(param)
    /\ UNCHANGED <<shopify_orders, spy_orders, notifications, now>>

\* lines 339-345
SsShopify ==
    /\ ss.pc = "shopify"
    /\ \E shopifyError \in BOOLEAN :
         IF shopifyError THEN ss' = [ss EXCEPT !.pc = "done", !.status = 500]
         ELSE ss' = [ss EXCEPT !.pc = "spy",
                        !.shopifyOrders = CreatedSince(shopify_orders, ss.start)]
    /\ UNCHANGED <<shopify_orders, spy_orders, notifications, now>>

\* lines 347-382
SsSpy ==
    /\ ss.pc = "spy"
    /\ \E spyError \in BOOLEAN :
         IF spyError THEN ss' = [ss EXCEPT !.pc = "done", !.status = 500]
         ELSE LET spyOrders == CreatedSince(spy_orders, ss.start) IN
              ss' = [ss EXCEPT !.pc = "done", !.status = 200, !.spyOrders = spyOrders,
                        !.summary = <<SalesSummary(ss.period, ss.start, now,
                                                   ss.shopifyOrders, spyOrders)>>]
    /\ UNCHANGED <<shopify_orders, spy_orders, notifications, now>>

(***************************************************************************)
(* ai-ask: the assistant                                                   *)
(***************************************************************************)
\* The catalogue of callable operations (part_000 lines 48-121).
FunctionCatalog == {"getSales", "getInventory", "getOrderStatus", "getProductSearch"}

\* .limit(10) of getOrderStatus
OrderStatusCap == 10

\* The parsed arguments of a function call; a field the object does not have
\* is NULL (<< >> for the order number, FALSE for a flag).
NoArgs == [period |-> NULL, system |-> NULL, product_sku |-> NULL,
           low_stock_only |-> FALSE, order_number |-> << >>,
           customer_email |-> NULL, search_term |-> NULL, include_stock |-> FALSE]
ArgObjects ==
    { NoArgs,
      [NoArgs EXCEPT !.period = "week"],
      [NoArgs EXCEPT !.period = "day", !.system = "spy"],
      [NoArgs EXCEPT !.low_stock_only = TRUE],
      [NoArgs EXCEPT !.product_sku = "s1"],
      [NoArgs EXCEPT !.order_number = <<1>>],
      [NoArgs EXCEPT !.customer_email = "a@x"],
      [NoArgs EXCEPT !.search_term = "s", !.include_stock = TRUE],
      [NoArgs EXCEPT !.search_term = "s1"] }

\* getSales lines 124-176: the results it may return (the rows of equal
\* created_at come in either order).
GetSalesResults(args, shopify, spy, t) ==
    LET system == IF args.system = NULL THEN "both" ELSE args.system
        start == StartDate(args.period, t)
        CreatedAt(r) == r.created_at[1]
        ShopifyColumns(r) == [total_amount |-> r.total_amount, created_at |-> r.created_at,
                              customer_email |-> r.customer_email, status |-> r.status]
        SpyColumns(r) == [total_amount |-> r.total_amount, created_at |-> r.created_at,
                          order_number |-> r.order_number, json |-> r.json]
        withShopify == system \in {"shopify", "both"}
        withSpy == system \in {"spy", "both"}
    IN
    { [period |-> args.period, system |-> system,
       shopify_orders |-> IF withShopify
                          THEN <<[k \in 1..Len(sh) |-> ShopifyColumns(sh[k])]>> ELSE << >>,
       total_shopify |-> IF withShopify THEN <<TotalAmount(sh)>> ELSE << >>,
       shopify_count |-> IF withShopify THEN <<Len(sh)>> ELSE << >>,
       spy_orders |-> IF withSpy
                      THEN <<[k \in 1..Len(sp) |-> SpyColumns(sp[k])]>> ELSE << >>,
       total_spy |-> IF withSpy THEN <<TotalAmount(sp)>> ELSE << >>,
       spy_count |-> IF withSpy THEN <<Len(sp)>> ELSE << >>,
       total_combined |-> IF system = "both"
                          THEN <<TotalAmount(sh) + TotalAmount(sp)>> ELSE << >>,
       orders_combined |-> IF system = "both" THEN <<Len(sh) + Len(sp)>> ELSE << >>] :
      sh \in Descending(CreatedSince(shopify, start), CreatedAt),
      sp \in Descending(CreatedSince(spy, start), CreatedAt) }

\* getOrderStatus lines 224-252.  No order of the model carries a customer
\* email in its json.
GetOrderStatusResults(args, spy) ==
    IF args.order_number = << >> /\ args.customer_email = NULL
    THEN {[error |-> "Either order_number or customer_email is required"]}
    ELSE LET Wanted(r) == args.order_number # << >>
                          /\ r.order_number = args.order_number[1]
             CreatedAt(r) == NumberOrZero(r.created_at)
             Shown(r) == [order_number |-> r.order_number, created_at |-> r.created_at,
                          total_amount |-> r.total_amount, status |-> "unknown",
                          customer_email |-> NULL, items_count |-> 0]
         IN {[error |-> "queryError"]} \cup
            { [orders |-> [k \in 1..Len(FirstN(q, OrderStatusCap)) |-> Shown(q[k])]] :
                q \in Descending(SelectSeq(spy, Wanted), CreatedAt) }

\* (mutant) an inventory call is answered by getSales.
LocalFunction_Swapped(name) ==
    IF name = "getInventory" THEN "getSales"
    ELSE IF name \in FunctionCatalog THEN name ELSE NULL

\* lines 340-348: the if / else-if chain on functionCall.name; a name outside
\* the catalogue runs nothing.
LocalFunction(name) == IF name \in FunctionCatalog THEN name ELSE NULL

\* The text of a datastore error, returned in place of the rows.
QueryErrorResult == [error |-> "queryError"]

\* What the local function fn returns when the datastore answers its queries
\* with an error (data is null).  getSales (lines 147-167) and getInventory
\* (197-221) read only data and go on as over empty tables; getOrderStatus
\* (238-240) and getProductSearch (269-271) return the error's text as their
\* result.
FailedQueryResults(fn, args) ==
    CASE fn = "getSales" -> GetSalesResults(args, << >>, << >>, now)
      [] fn = "getInventory" -> GetInventoryResults(args, products, << >>)
      [] fn = "getOrderStatus" ->
             IF args.order_number = << >> /\ args.customer_email = NULL THEN {}
             ELSE {QueryErrorResult}
      [] fn = "getProductSearch" -> {QueryErrorResult}

\* What the local function fn returns when the datastore answers its queries
\* with rows.
DataResults(fn, args) ==
    CASE fn = "getSales" -> GetSalesResults(args, shopify_orders, spy_orders, now)
      [] fn = "getInventory" -> GetInventoryResults(args, products, inventory_snapshots)
      [] fn = "getOrderStatus" ->
             GetOrderStatusResults(args, spy_orders) \ {QueryErrorResult}
      [] fn = "getProductSearch" ->
             GetProductSearchResults(args, products, inventory_snapshots)
                 \ {QueryErrorResult}

\* What the local function fn may return for the arguments.
FunctionResults(fn, args) == FailedQueryResults(fn, args) \cup DataResults(fn, args)

\* The datastore queries the local function makes.
QueriesOf(fn, args) ==
    CASE fn = "getSales" ->
             IF args.system \in {NULL, "both"} THEN 2
             ELSE IF args.system \in {"shopify", "spy"} THEN 1 ELSE 0
      [] fn = "getInventory" -> 1
      [] fn = "getOrderStatus" ->
             IF args.order_number = << >> /\ args.customer_email = NULL THEN 0 ELSE 1
      [] fn = "getProductSearch" -> IF args.include_stock THEN 2 ELSE 1

AiIdle == [pc |-> "idle", status |-> 0, json |-> TRUE, query |-> NULL,
           call |-> << >>, dispatched |-> << >>, result |-> << >>,
           response |-> << >>, error |-> NULL,
           \* history: the language-model calls and datastore queries made;
           \* the datastore answered the function's queries with an error
           llmCalls |-> 0, dbCalls |-> 0, queryFailed |-> FALSE]

\* The query field of the request body: absent or null (NULL), empty, a text.
Queries == {NULL, "", "show me low stock items", "sales this week"}

\* (mutant) only an absent query is refused.
QueryRejected_AbsentOnly(query) == query = NULL

\* line 23: !query
QueryRejected(query) == query \in {NULL, ""}

\* lines 20-31: the body is parsed and the query checked.
AiStart ==
    /\ ai.pc \in {"idle", "done"}
    /\ \/ ai' = [AiIdle EXCEPT !.pc = "done", !.status = 500, !.json = FALSE,
                               !.error = "body"]
       \/ \E query \in Queries :
            IF QueryRejected(query)
            THEN ai' = [AiIdle EXCEPT !.pc = "done", !.status = 400, !.query = query,
                                      !.error = "Query is required"]
            ELSE ai' = [AiIdle EXCEPT !.pc = "first", !.query = query]
    /\ UNCHANGED <<shopify_orders, spy_orders, products, inventory_snapshots,
                   notifications, now>>

\* lines 307-331 and 401-410: the first call of the language model, which
\* fails, answers in text, or elects a function call with a name and a text
\* of arguments (json FALSE: the text is no JSON).
AiFirst ==
    /\ ai.pc = "first"
    /\ \/ ai' = [ai EXCEPT !.pc = "done", !.status = 500, !.llmCalls = @ + 1,
                           !.error = "llm"]
       \/ ai' = [ai EXCEPT !.pc = "done", !.status = 200, !.llmCalls = @ + 1,
                           !.response = <<[answer |-> "text", citations |-> << >>]>>]
       \/ \E name \in FunctionCatalog \cup {"getWeather"}, json \in BOOLEAN,
             args \in ArgObjects :
            ai' = [ai EXCEPT !.pc = "dispatch", !.llmCalls = @ + 1,
                             !.call = <<[name |-> name,
                                         arguments |-> [json |-> json, args |-> args]]>>]
    /\ UNCHANGED <<shopify_orders, spy_orders, products, inventory_snapshots,
                   notifications, now>>

\* (mutant) a text of arguments that is no JSON is read as an empty object.
JsonParses_Lenient(arguments) == TRUE

\* line 338: JSON.parse(functionCall.arguments) returns, or throws on a text
\* that is no JSON.
JsonParses(arguments) == arguments.json

\* lines 337-348: the arguments are parsed and the function of the given
\* name is run.  (No writer runs in the specification of the assistant, so
\* the queries of one function are taken in one step.)
AiDispatch ==
    /\ ai.pc = "dispatch"
    /\ LET call == ai.call[1]
           fn == LocalFunction(call.name)
       IN
       IF ~JsonParses(call.arguments)
       THEN ai' = [ai EXCEPT !.pc = "done", !.status = 500,
                             !.error = "Function execution error"]
       ELSE IF fn = NULL
       THEN ai' = [ai EXCEPT !.pc = "second"]
       ELSE \E failed \in {f \in BOOLEAN : f => QueriesOf(fn, call.arguments.args) > 0} :
            \E r \in IF failed THEN FailedQueryResults(fn, call.arguments.args)
                      ELSE DataResults(fn, call.arguments.args) :
              /\ ai' = [ai EXCEPT !.pc = "second", !.dispatched = Append(@, fn),
                                  !.result = <<r>>, !.queryFailed = failed,
                                  !.dbCalls = @ + QueriesOf(fn, call.arguments.args)]
    /\ UNCHANGED <<shopify_orders, spy_orders, products, inventory_snapshots,
                   notifications, now>>

\* lines 350-398: the second call of the language model and the response.
AiSecond ==
    /\ ai.pc = "second"
    /\ \/ ai' = [ai EXCEPT !.pc = "done", !.status = 500, !.llmCalls = @ + 1,
                           !.error = "Function execution error"]
       \/ ai' = [ai EXCEPT !.pc = "done", !.status = 200, !.llmCalls = @ + 1,
                           !.response =
                               <<[answer |-> "text",
                                  citations |-> <<[source |-> ai.call[1].name,
                                                   data |-> ai.result]>>]>>]
    /\ UNCHANGED <<shopify_orders, spy_orders, products, inventory_snapshots,
                   notifications, now>>

(***************************************************************************)
(* The clock                                                               *)
(***************************************************************************)
Tick ==
    /\ now < MaxTime
    /\ now' = now + 1
    /\ UNCHANGED <<notifications, secrets, spy_orders, products,
                   inventory_snapshots>>


(***************************************************************************)
(* The front end: component App (src/unnamed/part_003)                     *)
(***************************************************************************)
\* The accounts of the identity provider.
Accounts == {"adminA", "salesS", "wareW", "newN", "phoneP"}

\* Table users: the role in the row of the account, NULL when it has no row.
ProfileRole(id) ==
    CASE id = "adminA" -> "admin"
      [] id = "salesS" -> "sales"
      [] id = "wareW" -> "warehouse"
      [] OTHER -> NULL

\* session.user.email is set for the account.
HasEmail(id) == id # "phoneP"

\* The addresses a user can open.
Paths == {"/", "/sales", "/inventory", "/ai", "/admin/spy", "/nowhere"}

MaxFetches == 2   \* calls of fetchUserProfile in flight

\* The component before the page is opened.  client is the session the
\* supabase client holds (what supabase.auth.getSession() answers); session,
\* user and loading are the component's state; initial tells that the
\* getSession() of the effect has resolved; fetches are the calls of
\* fetchUserProfile in flight, each with its userId and its position (equal
\* calls at the same position count once); path is the address.
AppClosed ==
    [client |-> NULL, session |-> NULL, user |-> << >>, loading |-> TRUE,
     initial |-> FALSE, fetches |-> {}, path |-> "/"]

\* fetchUserProfile(userId) is called: its query is in flight.
fetchUserProfile(a, userId) ==
    [a EXCEPT !.fetches = @ \cup {[userId |-> userId, pc |-> "query"]}]

\* The getSession() of the effect resolves.
AppGetSession ==
    /\ ~app.initial
    /\ LET a == [app EXCEPT !.initial = TRUE, !.session = app.client,
                            !.loading = FALSE]
       IN  app' = IF app.client # NULL THEN fetchUserProfile(a, app.client) ELSE a
    /\ Cardinality(app'.fetches) <= MaxFetches

\* onAuthStateChange delivers an event with session s: a sign-in when nobody
\* was signed in, a sign-out, or an event for the session held (initial
\* session, refreshed token, tab shown again).
AppAuthChange(s) ==
    /\ s = app.client \/ s = NULL \/ app.client = NULL
    /\ LET a == [app EXCEPT !.client = s, !.session = s, !.loading = FALSE]
       IN  app' = IF s # NULL THEN fetchUserProfile(a, s)
                  ELSE [a EXCEPT !.user = << >>]
    /\ Cardinality(app'.fetches) <= MaxFetches

\* The query of a call of fetchUserProfile resolves: with the row, with no row
\* (PGRST116), with another error (the call returns), or it throws.
AppProfileQuery(f, outcome) ==
    /\ f \in app.fetches /\ f.pc = "query"
    /\ outcome = "row" <=> ProfileRole(f.userId) # NULL /\ outcome # "norow"
    /\ outcome = "norow" => ProfileRole(f.userId) = NULL
    /\ app' =
         CASE outcome = "row" ->
                  [app EXCEPT !.fetches = @ \ {f},
                              !.user = <<[id |-> f.userId,
                                          role |-> ProfileRole(f.userId)]>>]
           [] outcome = "error" -> [app EXCEPT !.fetches = @ \ {f}]
           [] outcome \in {"norow", "throw"} ->
                  [app EXCEPT !.fetches = (@ \ {f}) \cup
                                  {[userId |-> f.userId, pc |-> "getSession"]}]

\* The getSession() of the default profile resolves: with an e-mail in the
\* session the call sets a profile of role sales for its userId.
AppDefaultProfile(f) ==
    /\ f \in app.fetches /\ f.pc = "getSession"
    /\ app' = IF app.client # NULL /\ HasEmail(app.client)
              THEN [app EXCEPT !.fetches = @ \ {f},
                               !.user = <<[id |-> f.userId, role |-> "sales"]>>]
              ELSE [app EXCEPT !.fetches = @ \ {f}]

\* user?.role
RoleOf(user) == IF user = << >> THEN NULL ELSE user[1].role

\* What component SpyAdmin shows.
SpyAdmin(user) ==
    IF user = << >> \/ user[1].role # "admin" THEN "AccessDenied" ELSE "SpyAdmin"

\* The element of the route that matches the path.
RouteElement(user, path) ==
    CASE path = "/" -> "Dashboard"
      [] path = "/sales" ->
             IF RoleOf(user) = "sales" \/ RoleOf(user) = "admin"
             THEN "SalesView" ELSE "Navigate"
      [] path = "/inventory" ->
             IF RoleOf(user) = "warehouse" \/ RoleOf(user) = "admin"
             THEN "InventoryView" ELSE "Navigate"
      [] path = "/ai" -> "AIChat"
      [] path = "/admin/spy" ->
             IF RoleOf(user) = "admin" THEN SpyAdmin(user) ELSE "Navigate"
      [] OTHER -> "Navigate"

\* What App renders.
Rendered(a) ==
    IF a.loading THEN "Spinner"
    ELSE IF a.session = NULL THEN "Login"
    ELSE RouteElement(a.user, a.path)

\* <Navigate to="/" replace />
AppRedirect ==
    /\ Rendered(app) = "Navigate"
    /\ app' = [app EXCEPT !.path = "/"]

\* The user opens another address.
AppOpen(p) ==
    /\ p # app.path
    /\ app' = [app EXCEPT !.path = p]


(***************************************************************************)
(* component AIChat (frontend/src/components/AIChat.tsx)                   *)
(***************************************************************************)
\* What the input box may hold: nothing, blanks, a question.
Inputs == {"", " ", "q1", "q2"}

\* String.prototype.trim on those texts
Trim(text) == IF text = " " THEN "" ELSE text

\* What the function may put in data.answer; "" stands for an answer that is
\* empty or absent (part_000 lines 377, 404: the content of the completion).
Answers == {"", "a1", "a2"}

\* lines 21-28: the list starts with the assistant's greeting
Greeting == [isUser |-> FALSE, content |-> "greeting"]

\* line 69 and line 79: the two apology texts
FallbackText == "apology"
ErrorText == "apology, please try again"

\* The conversation is followed up to this many messages.
MaxMessages == 5

\* lines 21-30: the component after mounting.  calls: the queries of the
\* invocations of ai-ask not yet settled.
ChatIdle == [messages |-> <<Greeting>>, input |-> "", loading |-> FALSE,
             calls |-> << >>]

\* line 43: if (!input.trim() || loading) return
CanSend_IgnoresBlank(input, loading) == ~loading
CanSend(input, loading) == ~(Trim(input) = "" \/ loading)

\* line 195 onChange (the field is disabled while loading, line 198) and
\* lines 97-99, 172: a suggested question, offered while the list holds the
\* greeting only.
ChatType(text) ==
    /\ ~chat.loading
    /\ text # chat.input
    /\ chat' = [chat EXCEPT !.input = text]

\* handleSendMessage lines 41-62, up to the await: the submit event.
ChatSubmit ==
    /\ Len(chat.messages) + Len(chat.calls) + 2 <= MaxMessages
    /\ IF ~CanSend(chat.input, chat.loading) THEN chat' = chat
       ELSE chat' = [chat EXCEPT
                        !.messages = Append(@, [isUser |-> TRUE,
                                                content |-> Trim(chat.input)]),
                        !.input = "",
                        !.loading = TRUE,
                        !.calls = Append(@, Trim(chat.input))]

\* line 69: data.answer || the fallback text
AnswerContent(answer) == IF answer = "" THEN FallbackText ELSE answer

\* lines 62-86, after the await: call k settles, with data ("ok") or with an
\* error or without data ("failed").
ChatSettle(k, outcome, answer) ==
    /\ k \in 1..Len(chat.calls)
    /\ LET content == IF outcome = "ok" THEN AnswerContent(answer) ELSE ErrorText IN
       chat' = [chat EXCEPT
                   !.messages = Append(@, [isUser |-> FALSE, content |-> content]),
                   !.loading = FALSE,
                   !.calls = [j \in 1..(Len(@) - 1) |-> IF j < k THEN @[j] ELSE @[j + 1]]]

(***************************************************************************)
(* components Dashboard and SalesView                                      *)
(* (frontend/src/components/Dashboard.tsx)                                 *)
(***************************************************************************)
SalesViews == {"Dashboard", "SalesView"}

\* The periods of the selector (lines 325, 694)
SelectablePeriods == {"day", "week", "month"}

\* At most this many invocations of sales-summary wait for the function.
MaxCalls == 2

\* Neither component is mounted.
DashClosed == [view |-> NULL, selectedPeriod |-> "day", salesSummary |-> << >>,
               loading |-> TRUE, calls |-> << >>, serving |-> FALSE]

\* lines 335-340 and 703-708: supabase.functions.invoke('sales-summary',
\* {method: 'GET', headers}): the ?period= of the request it makes.  The
\* call names the function only, whatever the selected period.
InvokedPeriod(selectedPeriod) == NULL

\* lines 322-329 and 690-698: mounting, and the effect's first fetch
DashOpen(view) ==
    /\ dash.view = NULL
    /\ dash' = [DashClosed EXCEPT !.view = view,
                                  !.calls = <<InvokedPeriod("day")>>]

\* setSelectedPeriod, then the effect of lines 327-329 / 696-698 and the
\* fetch up to its await (lines 331-340, 700-708)
DashSelect(period) ==
    /\ dash.view # NULL
    /\ period # dash.selectedPeriod
    /\ Len(dash.calls) < MaxCalls
    /\ dash' = [dash EXCEPT !.selectedPeriod = period, !.loading = TRUE,
                            !.calls = Append(@, InvokedPeriod(period))]

\* The call never reaches the function: invoke throws, lines 359-363.
DashCallFails(k) ==
    /\ k \in 1..Len(dash.calls)
    /\ dash' = [dash EXCEPT !.loading = FALSE,
                   !.calls = [j \in 1..(Len(@) - 1) |-> IF j < k THEN @[j] ELSE @[j + 1]]]

\* Call k reaches sales-summary, which reads its period.
DashServe(k) ==
    /\ k \in 1..Len(dash.calls)
    /\ ~dash.serving
    /\ ss.pc \in {"idle", "done"}
    /\ ss' = SsRead(dash.calls[k])
    /\ dash' = [dash EXCEPT !.serving = TRUE,
                   !.calls = [j \in 1..(Len(@) - 1) |-> IF j < k THEN @[j] ELSE @[j + 1]]]

\* lines 342-344 and 361-363 (710-712): the response arrives; data is null
\* unless the status is 2xx.
DashSettle ==
    /\ dash.serving
    /\ ss.pc = "done"
    /\ dash' = [dash EXCEPT !.serving = FALSE, !.loading = FALSE,
                   !.salesSummary = IF ss.status = 200 THEN ss.summary ELSE @]

(***************************************************************************)
(* Specifications                                                          *)
(***************************************************************************)
vars == <<shopify_orders, notifications, webhookSecret, wh, whWrites, whUpserts,
          secrets, spy_orders, products, inventory_snapshots, now,
          lg, os, iv, ad, iq, ss, ai, app,
          chat, dash>>

\* The read-side handlers have not run and the front end is not open.
qVars == <<iq, ss, ai, app,
          chat, dash>>
QueryInit ==
    /\ iq = IqIdle /\ ss = SsIdle /\ ai = AiIdle /\ app = AppClosed
    /\ chat = ChatIdle /\ dash = DashClosed

spyVars == <<secrets, spy_orders, products, inventory_snapshots, now,
             lg, os, iv, ad>>

\* No SPY function has run; an admin has configured the credentials or not.
SpyInit ==
    /\ \/ secrets = [k \in SecretKeys |-> << >>]
       \/ \E c \in CredentialSets :
            secrets = [k \in SecretKeys |->
                          IF k \in CredentialKeys
                          THEN <<[value |-> c[k], expires_at |-> << >>,
                                  updated_at |-> 0]>>
                          ELSE << >>]
    /\ spy_orders = << >>
    /\ products = << >>
    /\ inventory_snapshots = << >>
    /\ now = 0
    /\ lg = LgIdle /\ os = OsIdle /\ iv = IvIdle /\ ad = AdIdle

\* The specification of the webhook: deliveries run concurrently.
WebhookInit == WhInit /\ notifications = << >> /\ SpyInit /\ QueryInit
WhNext == WhStep /\ UNCHANGED <<spyVars, qVars>>
SpecWebhook == WebhookInit /\ [][WhNext]_vars

\* The SPY functions, one run at a time (a function called by the dispatcher
\* runs inside the dispatcher's run); the clock ticks between any two steps.
\* The locals of earlier runs are dropped when a new run starts.
Quiet(run) == run.pc \in {"idle", "done"}
AllQuiet == Quiet(lg) /\ Quiet(os) /\ Quiet(iv) /\ Quiet(ad)

DoLgStart ==
    /\ AllQuiet /\ LgStart("direct")
    /\ os' = OsIdle /\ iv' = IvIdle /\ ad' = AdIdle /\ UNCHANGED <<whVars, qVars>>
DoOsStart ==
    /\ AllQuiet /\ \E c \in Callers : OsStart(c, "direct")
    /\ lg' = LgIdle /\ iv' = IvIdle /\ ad' = AdIdle /\ UNCHANGED <<whVars, qVars>>
DoIvStart ==
    /\ AllQuiet /\ \E c \in Callers : IvStart(c, "direct")
    /\ lg' = LgIdle /\ os' = OsIdle /\ ad' = AdIdle /\ UNCHANGED <<whVars, qVars>>
DoAdStart ==
    /\ AllQuiet /\ \E c \in Callers : AdStart(c)
    /\ lg' = LgIdle /\ os' = OsIdle /\ iv' = IvIdle /\ UNCHANGED <<whVars, qVars>>

DoLgLogin == LgLogin /\ UNCHANGED <<os, iv, ad, whVars, qVars>>
DoLgStore == LgStore /\ UNCHANGED <<os, iv, ad, whVars, qVars>>
DoLgTest == LgTest /\ UNCHANGED <<os, iv, ad, whVars, qVars>>
DoLgFail == LgFail /\ UNCHANGED <<os, iv, ad, whVars, qVars>>
DoOsFetch == OsFetch /\ UNCHANGED <<lg, iv, ad, whVars, qVars>>
DoOsUpsert == OsUpsert /\ UNCHANGED <<lg, iv, ad, whVars, qVars>>
DoOsNotify == OsNotify /\ UNCHANGED <<lg, iv, ad, whVars, qVars>>
DoIvFetch == IvFetch /\ UNCHANGED <<lg, os, ad, whVars, qVars>>
DoIvProduct == IvProduct /\ UNCHANGED <<lg, os, ad, whVars, qVars>>
DoIvSnapshot == IvSnapshot /\ UNCHANGED <<lg, os, ad, whVars, qVars>>
DoIvNotify == IvNotify /\ UNCHANGED <<lg, os, ad, whVars, qVars>>
DoAdStatus == AdStatus /\ UNCHANGED <<lg, os, iv, whVars, qVars>>
DoAdCred == AdCred /\ UNCHANGED <<lg, os, iv, whVars, qVars>>
DoAdCredNotify == AdCredNotify /\ UNCHANGED <<lg, os, iv, whVars, qVars>>
DoAdTestRead == AdTestRead /\ UNCHANGED <<lg, os, iv, whVars, qVars>>
DoAdTestFetch == AdTestFetch /\ UNCHANGED <<lg, os, iv, whVars, qVars>>
DoAdRelay == AdRelay /\ UNCHANGED <<lg, os, iv, whVars, qVars>>
DoAdCallLogin == AdCallLogin /\ UNCHANGED <<os, iv, whVars, qVars>>
DoAdCallOrders == AdCallOrders /\ UNCHANGED <<lg, iv, whVars, qVars>>
DoAdCallInventory == AdCallInventory /\ UNCHANGED <<lg, os, whVars, qVars>>
DoTick == Tick /\ UNCHANGED <<lg, os, iv, ad, whVars, qVars>>

SpyBase ==
    WhInit /\ webhookSecret = NULL /\ notifications = << >> /\ SpyInit /\ QueryInit

\* The credential lifecycle: the login and the three consumers of the token,
\* with the clock.  The SPY API replies with at most one order and with no
\* variant here.
CredNext ==
    \/ DoTick
    \/ DoLgStart \/ DoLgLogin \/ DoLgStore \/ DoLgTest \/ DoLgFail
    \/ DoOsStart
    \/ DoOsFetch /\ Len(os'.orders) <= 1
    \/ DoOsUpsert \/ DoOsNotify
    \/ DoIvStart
    \/ DoIvFetch /\ Len(iv'.variants) = 0
    \/ DoIvNotify
    \/ DoAdStart /\ ad'.action = "test_connection"
    \/ DoAdTestRead \/ DoAdTestFetch
SpecCred == SpyBase /\ [][CredNext]_vars

\* Every caller against every entry point: the dispatcher with all its
\* actions and the functions it calls, and the two syncs called directly.  The
\* SPY API replies with at most one record; the clock stands still.
GateNext ==
    \/ DoAdStart
    \/ DoAdStatus
    \/ DoAdCred /\ ad'.upstream = "none"
    \/ DoAdCredNotify \/ DoAdTestRead \/ DoAdTestFetch
    \/ DoAdCallLogin \/ DoLgLogin \/ DoLgStore \/ DoLgTest \/ DoLgFail
    \/ DoAdCallOrders \/ DoOsStart
    \/ DoOsFetch /\ Len(os'.orders) <= 1
    \/ DoOsUpsert \/ DoOsNotify
    \/ DoAdCallInventory \/ DoIvStart
    \/ DoIvFetch /\ Len(iv'.variants) <= 1
    \/ DoIvProduct \/ DoIvSnapshot \/ DoIvNotify
    \/ DoAdRelay
SpecGate == SpyBase /\ [][GateNext]_vars

\* A token stored by a login at time 0 under one of the credential sets.
LoggedInInit ==
    /\ WhInit /\ webhookSecret = NULL /\ notifications = << >>
    /\ \E c \in CredentialSets, tok \in TokenValues :
         secrets = [k \in SecretKeys |->
                       IF k \in CredentialKeys
                       THEN <<[value |-> c[k], expires_at |-> << >>, updated_at |-> 0]>>
                       ELSE <<[value |-> tok, expires_at |-> <<LoginExpiry(0)>>,
                               updated_at |-> 0]>>]
    /\ spy_orders = << >> /\ products = << >> /\ inventory_snapshots = << >>
    /\ now = 0
    /\ lg = LgIdle /\ os = OsIdle /\ iv = IvIdle /\ ad = AdIdle
    /\ QueryInit

\* Runs of the orders sync, called directly, while the token is valid.
OrdersNext ==
    \/ DoOsStart
    \/ DoOsFetch /\ Len(os'.orders) <= MaxOrders
    \/ DoOsUpsert \/ DoOsNotify
SpecOrders == LoggedInInit /\ [][OrdersNext]_vars

\* The admin dispatcher's status, with what changes the data it reports: the
\* credential form, the login and the orders sync called through it.
StatusNext ==
    \/ DoTick
    \/ DoAdStart /\ ad'.action \in {"get_status", "update_credentials",
                                    "refresh_token", "sync_orders"}
    \/ DoAdStatus
    \/ DoAdCred /\ ad'.upstream = "none"
    \/ DoAdCredNotify
    \/ DoAdCallLogin \/ DoLgLogin \/ DoLgStore \/ DoLgTest \/ DoLgFail
    \/ DoAdCallOrders
    \/ DoOsFetch /\ Len(os'.orders) <= 1
    \/ DoOsUpsert \/ DoOsNotify
    \/ DoAdRelay
SpecStatus == SpyBase /\ [][StatusNext]_vars

\* Upstream failures: the dispatcher's credential form and the orders sync
\* called through it, with a datastore that may refuse an upsert and a SPY
\* API that may reply non-2xx.
FailuresNext ==
    \/ DoAdStart /\ ad'.action \in {"update_credentials", "sync_orders"}
    \/ DoAdCred \/ DoAdCredNotify
    \/ DoAdCallOrders
    \/ DoOsFetch /\ Len(os'.orders) <= 1
    \/ DoOsUpsert \/ DoOsNotify
    \/ DoAdRelay
SpecFailures == LoggedInInit /\ [][FailuresNext]_vars

\* The loops of the two syncs, run by an admin while the token is valid, up
\* to the first run that completes.  In a long reply only the first two
\* records may throw; the others succeed or return an error.
LoopNext ==
    \/ DoOsStart /\ os'.caller = "admin" /\ notifications = << >>
    \/ DoOsFetch
    \/ DoOsUpsert /\ (os.i > 2 => os'.outcomes[os.i] # "throw")
    \/ DoOsNotify
    \/ DoIvStart /\ iv'.caller = "admin" /\ notifications = << >>
    \/ DoIvFetch
    \/ DoIvProduct /\ (iv.i > 2 /\ iv'.i # iv.i => iv'.outcomes[iv.i] # "product_throw")
    \/ DoIvSnapshot /\ Len(inventory_snapshots') <= MaxSnapshots
                    /\ (iv.i > 2 => iv'.outcomes[iv.i] # "snapshot_throw")
    \/ DoIvNotify
LoopInit ==
    /\ LoggedInInit
    /\ SecretValue(secrets, "SPY_TOKEN") = "tokA"
    /\ SecretValue(secrets, "SPY_API_URL") = "url1"
SpecLoop == LoopInit /\ [][LoopNext]_vars

\* An admin changes the credentials and runs the orders sync through the
\* dispatcher while the clock runs; nobody logs in again.
RotateNext ==
    \/ DoTick
    \/ DoAdStart /\ ad'.caller = "admin"
                 /\ ad'.action \in {"update_credentials", "sync_orders"}
    \/ DoAdCred \/ DoAdCredNotify
    \/ DoAdCallOrders
    \/ DoOsFetch /\ Len(os'.orders) <= 1
    \/ DoOsUpsert \/ DoOsNotify
    \/ DoAdRelay
SpecRotate == LoopInit /\ [][RotateNext]_vars

\* The stock levels and minimum stocks of the catalogue: below, at and above
\* a minimum of 3, and no minimum set.
StockLevels == {0, 3, 5}
MinStocks == {<< >>, <<0>>, <<3>>}

\* Two products with their minimum stocks set, and up to MaxSnapshots stock
\* readings taken at non-decreasing times.
InventoryInit ==
    /\ WhInit /\ webhookSecret = NULL /\ notifications = << >>
    /\ secrets = [k \in SecretKeys |-> << >>]
    /\ spy_orders = << >>
    /\ \E m1 \in MinStocks, m2 \in MinStocks :
         products = <<[id |-> 1, sku |-> "s1", name |-> "n", min_stock |-> m1,
                       updated_at |-> 0],
                      [id |-> 2, sku |-> "s2", name |-> "n", min_stock |-> m2,
                       updated_at |-> 0]>>
    /\ inventory_snapshots \in
           { q \in SeqsUpTo([product_id : {1, 2}, stock_level : StockLevels,
                             taken_at : 0..MaxTime], MaxSnapshots) :
               \A k \in 1..(Len(q) - 1) : q[k].taken_at <= q[k + 1].taken_at }
    /\ now = MaxTime
    /\ lg = LgIdle /\ os = OsIdle /\ iv = IvIdle /\ ad = AdIdle
    /\ QueryInit

DoIqTop20 == IqTop20 /\ UNCHANGED <<lg, os, iv, ad, ss, ai, app, chat, dash, whVars>>
DoIqGetInventory == IqGetInventory /\ UNCHANGED <<lg, os, iv, ad, ss, ai, app, chat, dash, whVars>>
DoIqProductSearch == IqProductSearch /\ UNCHANGED <<lg, os, iv, ad, ss, ai, app, chat, dash, whVars>>
DoIqInventoryCheck == IqInventoryCheck /\ UNCHANGED <<lg, os, iv, ad, ss, ai, app, chat, dash, whVars>>
DoIqWeeklyReport == IqWeeklyReport /\ UNCHANGED <<lg, os, iv, ad, ss, ai, app, chat, dash, whVars>>

InventoryNext ==
    \/ DoIqTop20 \/ DoIqGetInventory \/ DoIqProductSearch
    \/ DoIqInventoryCheck \/ DoIqWeeklyReport
SpecInventory == InventoryInit /\ [][InventoryNext]_vars

\* The catalogues of the ranking: a few products, and one more than the
\* ranking returns.
CatalogueSizes == {3, Top20Cap + 1}

\* The stock of product k at its first reading: rising with k, falling with
\* k, the same for all, mixed.
StockPatterns(n) ==
    { [k \in 1..n |-> k], [k \in 1..n |-> n + 1 - k], [k \in 1..n |-> 5],
      [k \in 1..n |-> (k * 7) % 5] }

\* Later (and earlier, and simultaneous) readings of the first, the second
\* and the last product.
ExtraReadings(n) ==
    SeqsUpTo([product_id : {1, 2, n}, stock_level : {0, 30}, taken_at : {0, 2, n + 1}],
             MaxSnapshots)

\* n products, each read once at hour k, and the extra readings.
RankingInit ==
    /\ WhInit /\ webhookSecret = NULL /\ notifications = << >>
    /\ secrets = [k \in SecretKeys |-> << >>]
    /\ spy_orders = << >>
    /\ \E n \in CatalogueSizes :
         /\ products = [k \in 1..n |->
                           [id |-> k, sku |-> "s" \o ToString(k), name |-> "n",
                            min_stock |-> <<3>>, updated_at |-> 0]]
         /\ \E stock \in StockPatterns(n), extra \in ExtraReadings(n) :
              inventory_snapshots =
                  [k \in 1..n |-> [product_id |-> k, stock_level |-> stock[k],
                                   taken_at |-> k]] \o extra
    /\ now = MaxTime
    /\ lg = LgIdle /\ os = OsIdle /\ iv = IvIdle /\ ad = AdIdle
    /\ QueryInit

RankingNext == DoIqTop20
SpecRanking == RankingInit /\ [][RankingNext]_vars

\* The days the sales-summary is asked on: 0..MaxDay, at midnight and at 13h.
MaxDay == 34
AskedAt == {d * HoursPerDay + h : d \in 0..MaxDay, h \in {0, 13}}

\* How long before the request the stored orders were created: an hour, ten
\* days.
OrderAges == {1, 10 * HoursPerDay}

\* shopify_orders as the webhook leaves it after up to MaxOrderId orders, and
\* spy_orders as the orders sync leaves it after up to two.
ShopifyTables(t) ==
    { [k \in 1..Len(q) |->
          OrderRow([id |-> k, created_at |-> <<t - q[k].age>>,
                    total_price |-> q[k].price, fulfillment_status |-> NULL,
                    customer_email |-> NULL])] :
      q \in SeqsUpTo([age : OrderAges, price : {<<"1", "2">>, <<"x">>}], MaxOrderId) }
SpyTables(t) ==
    { [k \in 1..Len(q) |->
          SpyOrderRow([order_number |-> k, created_at |-> <<t - q[k]>>,
                       total_amount |-> <<5>>])] :
      q \in SeqsUpTo(OrderAges, 2) }

SalesInit ==
    /\ webhookSecret = NULL /\ notifications = << >>
    /\ wh = [d \in Deliveries |-> WhIdle] /\ whWrites = {} /\ whUpserts = << >>
    /\ secrets = [k \in SecretKeys |-> << >>]
    /\ products = << >> /\ inventory_snapshots = << >>
    /\ now \in AskedAt
    /\ shopify_orders \in ShopifyTables(now)
    /\ spy_orders \in SpyTables(now)
    /\ lg = LgIdle /\ os = OsIdle /\ iv = IvIdle /\ ad = AdIdle
    /\ QueryInit

DoSsStart ==
    SsStart /\ UNCHANGED <<secrets, products, inventory_snapshots, webhookSecret, wh,
                           whWrites, whUpserts, lg, os, iv, ad, iq, ai, app,
          chat, dash>>
DoSsShopify ==
    SsShopify /\ UNCHANGED <<secrets, products, inventory_snapshots, webhookSecret, wh,
                             whWrites, whUpserts, lg, os, iv, ad, iq, ai, app,
          chat, dash>>
DoSsSpy ==
    SsSpy /\ UNCHANGED <<secrets, products, inventory_snapshots, webhookSecret, wh,
                         whWrites, whUpserts, lg, os, iv, ad, iq, ai, app,
          chat, dash>>

SalesNext == DoSsStart \/ DoSsShopify \/ DoSsSpy
SpecSales == SalesInit /\ [][SalesNext]_vars

\* The assistant over a datastore with one Shopify order, two SPY orders, two
\* products and the stock readings of the first.
AssistantInit ==
    /\ webhookSecret = NULL /\ notifications = << >>
    /\ wh = [d \in Deliveries |-> WhIdle] /\ whWrites = {} /\ whUpserts = << >>
    /\ secrets = [k \in SecretKeys |-> << >>]
    /\ now = MaxTime
    /\ shopify_orders \in {q \in ShopifyTables(MaxTime) : Len(q) = 1}
    /\ spy_orders \in {q \in SpyTables(MaxTime) : Len(q) = 2}
    /\ products = <<[id |-> 1, sku |-> "s1", name |-> "n", min_stock |-> <<3>>,
                     updated_at |-> 0],
                    [id |-> 2, sku |-> "s2", name |-> "n", min_stock |-> <<0>>,
                     updated_at |-> 1]>>
    /\ inventory_snapshots \in
           { << >>,
             <<[product_id |-> 1, stock_level |-> 0, taken_at |-> 0],
               [product_id |-> 1, stock_level |-> 5, taken_at |-> 1]>> }
    /\ lg = LgIdle /\ os = OsIdle /\ iv = IvIdle /\ ad = AdIdle
    /\ QueryInit

DoAiStart ==
    AiStart /\ UNCHANGED <<secrets, webhookSecret, wh, whWrites, whUpserts,
                           lg, os, iv, ad, iq, ss, app,
          chat, dash>>
DoAiFirst ==
    AiFirst /\ UNCHANGED <<secrets, webhookSecret, wh, whWrites, whUpserts,
                           lg, os, iv, ad, iq, ss, app,
          chat, dash>>
DoAiDispatch ==
    AiDispatch /\ UNCHANGED <<secrets, webhookSecret, wh, whWrites, whUpserts,
                              lg, os, iv, ad, iq, ss, app,
          chat, dash>>
DoAiSecond ==
    AiSecond /\ UNCHANGED <<secrets, webhookSecret, wh, whWrites, whUpserts,
                            lg, os, iv, ad, iq, ss, app,
          chat, dash>>

AssistantNext == DoAiStart \/ DoAiFirst \/ DoAiDispatch \/ DoAiSecond
SpecAssistant == AssistantInit /\ [][AssistantNext]_vars

(***************************************************************************)
(* shopify-webhook: claims                                                 *)
(***************************************************************************)
RowsWithId(i) == {k \in 1..Len(shopify_orders) : shopify_orders[k].id = i}

\* The delivery whose upsert of order id i was applied last.
UpsertsOf(i) == {k \in 1..Len(whUpserts) : wh[whUpserts[k]].order[1].id = i}
LastUpsertOf(i) == whUpserts[CHOOSE k \in UpsertsOf(i) : \A m \in UpsertsOf(i) : m <= k]

\* C1: a delivery whose signature header is missing or is not the digest of
\* its raw body under the configured secret (or with no secret configured)
\* is answered 401, and never, in any later state, has a shopify_orders row
\* or a notification written by it.
C1_UnsignedRejectedNothingWritten ==
    \A d \in Deliveries :
        (wh[d].pc # "idle" /\ ~wh[d].signed) =>
            /\ wh[d].pc = "done"
            /\ wh[d].status = 401
            /\ \A t \in {"shopify_orders", "notifications"} : <<d, t>> \notin whWrites

\* A wrongly signed delivery was answered while another delivery filled
\* both tables.
C1_Witness ==
    \E d, e \in Deliveries :
        /\ wh[d].pc = "done" /\ ~wh[d].signed /\ wh[d].status = 401
        /\ <<e, "shopify_orders">> \in whWrites
        /\ <<e, "notifications">> \in whWrites
        /\ Len(shopify_orders) = 1 /\ Len(notifications) = 1

\* C2: after any number of validly signed deliveries for an order id there
\* is exactly one stored row of that id, and its fields (created_at,
\* total_amount, status, customer_email, json) are the ones sent by the
\* delivery whose upsert came last.
C2_OneRowOfLastDelivery ==
    \A i \in OrderIds :
        /\ Cardinality(RowsWithId(i)) <= 1
        /\ UpsertsOf(i) # {} =>
              /\ Cardinality(RowsWithId(i)) = 1
              /\ \A k \in RowsWithId(i) :
                    shopify_orders[k] = OrderRow(wh[LastUpsertOf(i)].order[1])

\* The same payload was delivered twice, both deliveries were stored and
\* answered 200, and one row is there.
C2_Witness ==
    /\ Len(whUpserts) = 2
    /\ wh[whUpserts[1]].order = wh[whUpserts[2]].order
    /\ \A d \in Range(whUpserts) : wh[d].pc = "done" /\ wh[d].status = 200
    /\ Len(shopify_orders) = 1

(***************************************************************************)
(* SPY credential: claims                                                  *)
(***************************************************************************)
\* C3 (as the specification states it): a consumer of the token that found
\* the stored SPY_TOKEN expired when it read it behaves as for a missing
\* token: it makes no call to the SPY API and answers 400.  This is stated
\* for the orders sync, the inventory sync and test_connection alike.
C3_ExpiredTreatedAsMissing ==
    /\ os.expiredAtRead => os.apiCalls = 0 /\ os.pc = "done" /\ os.status = 400
    /\ iv.expiredAtRead => iv.apiCalls = 0 /\ iv.pc = "done" /\ iv.status = 400
    /\ ad.expiredAtRead => ad.apiCalls = 0 /\ ad.pc = "done" /\ ad.status = 400

\* The stored token is in the valid state: present and not past its expiry.
TokenValid == HasSecret(secrets, "SPY_TOKEN") /\ ~StoredTokenExpired

\* C4: the SPY_TOKEN row (value, expires_at, updated_at) changes only in the
\* store step of a login, which leaves a token expiring one lifetime after
\* the login time; a present token never becomes absent; and a sync run
\* passes its token check only while the token is valid.
C4_CredentialLifecycle ==
    [][ /\ secrets'["SPY_TOKEN"] # secrets["SPY_TOKEN"] =>
             /\ lg.pc = "store" /\ lg'.pc = "test"
             /\ secrets'["SPY_TOKEN"] =
                    <<[value |-> lg.token, expires_at |-> <<now + TokenLifetime>>,
                       updated_at |-> now]>>
             /\ TokenValid'
        /\ HasSecret(secrets, "SPY_TOKEN") => HasSecret(secrets', "SPY_TOKEN")
        /\ os'.pc = "fetch" /\ os.pc # "fetch" => TokenValid
        /\ iv'.pc = "fetch" /\ iv.pc # "fetch" => TokenValid
        /\ TokenValid /\ ~TokenValid' => now' > now /\ StoredTokenExpired'
      ]_vars

\* A login has replaced an expired token by a valid one.
C4_Witness ==
    /\ lg.pc = "done" /\ lg.status = 200 /\ lg.replacedExpired
    /\ TokenValid

(***************************************************************************)
(* spy-admin get_status: claims                                            *)
(***************************************************************************)
\* The secrets tables that differ from tbl in the value column only.
OtherValues == {"x", "y"}
ValueVariants(tbl) ==
    { [k \in SecretKeys |->
          IF HasSecret(tbl, k) THEN <<[tbl[k][1] EXCEPT !.value = f[k]]>> ELSE << >>] :
      f \in [SecretKeys -> OtherValues] }

StatusFields == {"success", "token_exists", "token_expires_at", "token_updated_at",
                 "credentials_configured", "orders_count", "products_count",
                 "recent_notifications"}

\* C5: the response of get_status is the one every datastore state differing
\* only in the value column of secrets would give, and it has the metadata
\* fields only.
C5_StatusHidesSecretValues ==
    ad.pc = "done" /\ ad.action = "get_status" /\ ad.status = 200 =>
        /\ \A other \in ValueVariants(secrets) :
               ad.resp = <<StatusResponse(other, notifications, spy_orders, products)>>
        /\ DOMAIN ad.resp[1] = StatusFields

\* A status was given while all four secrets were stored.
C5_Witness ==
    /\ ad.pc = "done" /\ ad.action = "get_status" /\ ad.status = 200
    /\ \A k \in SecretKeys : HasSecret(secrets, k)
    /\ ad.resp[1].token_exists /\ ad.resp[1].credentials_configured

(***************************************************************************)
(* spy-sync-orders: claims                                                 *)
(***************************************************************************)
CountOf(q, S) == Cardinality({k \in 1..Len(q) : q[k] \in S})

LatestReadings(id) ==
    { r \in Range(inventory_snapshots) :
        /\ r.product_id = id
        /\ \A r2 \in Range(inventory_snapshots) :
               r2.product_id = id => r2.taken_at <= r.taken_at }

MinStockOf(product) == IF product.min_stock = << >> THEN 0 ELSE product.min_stock[1]

\* The products the last derivation was asked about.
AskedAbout(product) ==
    CASE iq.place = "getInventory" -> iq.sku = NULL \/ iq.sku = product.sku
      [] iq.place = "getProductSearch" -> Matches(iq.term, product)
      [] OTHER -> TRUE

\* The last derivation flags the product: by is_low_stock where the items
\* carry it, by listing it where the result is the list of low-stock items.
Flagged(product) ==
    \E k \in 1..Len(iq.items) :
        /\ iq.items[k].product_id = product.id
        /\ IF iq.place \in {"inventory-check", "weekly-report"} THEN TRUE
           ELSE iq.items[k].is_low_stock

\* C7 (as the specification states it): in each of the five places, a product
\* with a stock reading is flagged low-stock if and only if its latest
\* reading is strictly below its min_stock (with readings of the same time,
\* one of them decides).
C7_LowStockIffLatestBelowMin ==
    iq.place # "idle" /\ iq.status = 200 =>
        \A k \in 1..Len(products) :
            LET product == products[k] IN
            AskedAbout(product) /\ LatestReadings(product.id) # {} =>
                /\ Flagged(product) =>
                       \E r \in LatestReadings(product.id) :
                           r.stock_level < MinStockOf(product)
                /\ ~Flagged(product) =>
                       \E r \in LatestReadings(product.id) :
                           ~(r.stock_level < MinStockOf(product))

(***************************************************************************)
(* sales-summary: claims                                                   *)
(***************************************************************************)
\* The sum of the total_amount of the rows, a row without one counting 0.
SumOfAmounts(rows) ==
    SeqSum([k \in 1..Len(rows) |->
               IF rows[k].total_amount = << >> THEN 0 ELSE rows[k].total_amount[1]])

\* C8: for day, week and month the start of the range is not after the time
\* of the request (day: midnight of the same day; week: midnight of a Sunday
\* less than 7 days back; month: midnight of the first of the month the
\* request falls in); each source's total is the sum of total_amount over the
\* rows returned for it; the combined total and orderCount are the sums of
\* the two sources'.
C8_SalesSummaryBoundaryAndTotals ==
    ss.pc = "done" /\ ss.status = 200 =>
        LET r == ss.summary[1] IN
        /\ ss.period \in {"day", "week", "month"}
        /\ r.startDate = ss.start
        /\ ss.start <= ss.at
        /\ ss.start % HoursPerDay = 0
        /\ ss.period = "day" => ss.at - ss.start < HoursPerDay
        /\ ss.period = "week" =>
               /\ ss.at - ss.start < DaysPerWeek * HoursPerDay
               /\ (ss.start \div HoursPerDay + 3) % DaysPerWeek = 0
        /\ ss.period = "month" =>
               /\ ss.start \div HoursPerDay \in MonthStarts
               /\ \A m \in MonthStarts :
                      m * HoursPerDay <= ss.at => m * HoursPerDay <= ss.start
        /\ r.shopify.total = SumOfAmounts(ss.shopifyOrders)
        /\ r.shopify.orderCount = Len(ss.shopifyOrders)
        /\ r.spy.total = SumOfAmounts(ss.spyOrders)
        /\ r.spy.orderCount = Len(ss.spyOrders)
        /\ r.combined.total = r.shopify.total + r.spy.total
        /\ r.combined.orderCount = r.shopify.orderCount + r.spy.orderCount

\* A week's summary asked on a day that is no Sunday, with orders of both
\* sources in the range and an order outside it.
C8_Witness ==
    /\ ss.pc = "done" /\ ss.status = 200 /\ ss.period = "week"
    /\ ss.start < ss.at - HoursPerDay
    /\ Len(ss.shopifyOrders) = 2 /\ ss.summary[1].shopify.total = 24
    /\ Len(ss.spyOrders) = 1 /\ Len(spy_orders) = 2
    /\ ss.summary[1].combined.total = 29

(***************************************************************************)
(* ai-ask: claims                                                          *)
(***************************************************************************)
\* C9: once the first reply of the model has elected a function call, the
\* only local function ever run is the one of the given name, and it is run
\* at most once; a response with an answer carries exactly one citation, its
\* source the given name and, for a name of the catalogue, its data a result
\* of that function for the given arguments.
C9_DispatchOnlyTheNamedFunction ==
    ai.call # << >> =>
        LET call == ai.call[1] IN
        /\ Len(ai.dispatched) <= 1
        /\ \A k \in 1..Len(ai.dispatched) : ai.dispatched[k] = call.name
        /\ ai.pc = "done" /\ ai.status = 200 =>
               LET citations == ai.response[1].citations IN
               /\ Len(citations) = 1
               /\ citations[1].source = call.name
               /\ call.name \in FunctionCatalog =>
                      /\ ai.dispatched = <<call.name>>
                      /\ citations[1].data # << >>
                      /\ citations[1].data[1] \in
                             FunctionResults(call.name, call.arguments.args)

\* "show me low stock items" answered through getInventory(low_stock_only).
C9_Witness ==
    /\ ai.pc = "done" /\ ai.status = 200
    /\ ai.query = "show me low stock items"
    /\ ai.call # << >> /\ ai.call[1].name = "getInventory"
    /\ ai.call[1].arguments.args.low_stock_only
    /\ ai.dispatched = <<"getInventory">>
    /\ ai.response[1].citations[1].source = "getInventory"
    /\ Len(ai.response[1].citations[1].data[1]) = 1

\* C10: a request whose body has no query, or an empty one, is answered 400,
\* and a request answered 400 has made no call of the language model and no
\* datastore query.
C10_EmptyQueryRejectedFirst ==
    /\ ai.pc # "idle" /\ ai.json /\ ai.query \in {NULL, ""} =>
           ai.pc = "done" /\ ai.status = 400
    /\ ai.status = 400 =>
           ai.llmCalls = 0 /\ ai.dbCalls = 0 /\ ai.dispatched = << >>
                           /\ ai.response = << >>

\* A request with an empty query was answered 400.
C10_Witness ==
    ai.pc = "done" /\ ai.json /\ ai.query = "" /\ ai.status = 400 /\ ai.llmCalls = 0

(***************************************************************************)
(* Claims about the assistant's failures                                   *)
(***************************************************************************)
\* C11: when the arguments of the function call the model returned are no
\* valid JSON, the request ends with a 500: no data-retrieval function was
\* dispatched, no datastore query and no second model call were made, and the
\* response carries no answer and no citation.
C11_BadArgumentsFailTheRequest ==
    (ai.pc = "done" /\ ai.call # << >> /\ ~ai.call[1].arguments.json)
        => /\ ai.status = 500
           /\ ai.error = "Function execution error"
           /\ ai.dispatched = << >>
           /\ ai.result = << >>
           /\ ai.dbCalls = 0
           /\ ai.llmCalls = 1
           /\ ai.response = << >>

\* A request ended on a call of a catalogue function whose arguments were no
\* JSON, while there was data the function would have returned.
C11_Witness ==
    /\ ai.pc = "done"
    /\ ai.call # << >>
    /\ ai.call[1].name = "getInventory"
    /\ ~ai.call[1].arguments.json
    /\ inventory_snapshots # << >>
    /\ ai.status = 500

(***************************************************************************)
(* Authorisation: claims                                                   *)
(***************************************************************************)
\* C12: every step of a run of the admin dispatcher or of a sync job (called
\* directly) whose caller is not an admin ends the run at once: 401 for no
\* user, 403 for a user whose role is not admin (500 when the dispatcher's
\* body names no action at all), and the step read no secret, wrote no table,
\* called no function and made no call of the SPY API.
C12_AdminGate ==
    [][ /\ (ad' # ad /\ ad'.pc # "idle" /\ ad'.caller # "admin") =>
              /\ ad'.pc = "done"
              /\ ad'.status = IF ad'.action = NULL THEN 500
                              ELSE IF ad'.caller = "anon" THEN 401 ELSE 403
              /\ ad'.secretReads = 0 /\ ad'.apiCalls = 0
              /\ lg'.pc = "idle" /\ os'.pc = "idle" /\ iv'.pc = "idle"
              /\ UNCHANGED <<secrets, notifications, spy_orders, products,
                             inventory_snapshots>>
        /\ (os' # os /\ os'.pc # "idle" /\ os'.caller # "admin") =>
              /\ os'.pc = "done"
              /\ os'.status = IF os'.caller = "anon" THEN 401 ELSE 403
              /\ os'.secretReads = 0 /\ os'.apiCalls = 0
              /\ UNCHANGED <<secrets, notifications, spy_orders, products,
                             inventory_snapshots>>
        /\ (iv' # iv /\ iv'.pc # "idle" /\ iv'.caller # "admin") =>
              /\ iv'.pc = "done"
              /\ iv'.status = IF iv'.caller = "anon" THEN 401 ELSE 403
              /\ iv'.secretReads = 0 /\ iv'.apiCalls = 0
              /\ UNCHANGED <<secrets, notifications, spy_orders, products,
                             inventory_snapshots>>
      ]_vars

\* A warehouse user asked the dispatcher to update the credentials while a
\* token was stored: 403.
C12_Witness ==
    /\ ad.pc = "done" /\ ad.caller = "warehouse"
    /\ ad.action = "update_credentials"
    /\ ad.status = 403
    /\ HasSecret(secrets, "SPY_TOKEN")
    /\ spy_orders # << >>

(***************************************************************************)
(* The syncs: claims about failures                                        *)
(***************************************************************************)
\* What a run of a sync has done so far: calls of the SPY API, records
\* attempted, notifications created.
SyncEffects(run) == run.apiCalls + Len(run.outcomes) + Len(run.notified)

\* C13: a run of the orders sync or of the inventory sync that read the
\* secrets and found SPY_TOKEN or SPY_API_URL absent, or SPY_TOKEN expired,
\* is over with a 400 and has done nothing: no call of the SPY API, no order,
\* product or snapshot written, no notification created.
C13_SyncWithoutValidTokenDoesNothing ==
    /\ (os.secretReads = 1
            /\ (os.absentAtRead \/ os.urlAbsentAtRead \/ os.expiredAtRead)) =>
           /\ os.pc = "done" /\ os.status = 400
           /\ SyncEffects(os) = 0 /\ os.synced = 0 /\ os.errorCount = 0
    /\ (iv.secretReads = 1
            /\ (iv.absentAtRead \/ iv.urlAbsentAtRead \/ iv.expiredAtRead)) =>
           /\ iv.pc = "done" /\ iv.status = 400
           /\ SyncEffects(iv) = 0 /\ iv.syncedProducts = 0
           /\ iv.syncedSnapshots = 0 /\ iv.errorCount = 0

\* An admin started the orders sync after the stored token had expired.
C13_Witness ==
    /\ os.pc = "done" /\ os.caller = "admin" /\ os.expiredAtRead
    /\ ~os.absentAtRead /\ ~os.urlAbsentAtRead
    /\ os.status = 400

\* The keys of the records of a run whose pass failed, in the order of the
\* passes.
RECURSIVE FailedKeys(_, _)
FailedKeys(attempted, outcomes) ==
    IF attempted = << >> \/ outcomes = << >> THEN << >>
    ELSE IF Head(outcomes) = "ok"
    THEN FailedKeys(Tail(attempted), Tail(outcomes))
    ELSE <<Head(attempted)>> \o FailedKeys(Tail(attempted), Tail(outcomes))

Completed(run) == run.pc = "notify" \/ (run.pc = "done" /\ run.status = 200)

\* C14: in a run of either sync the passes of the loop are the fetched
\* records, each once and in fetch order, whatever failed before (a run that
\* got a reply reaches its end with every record attempted); the response's
\* error_count is the number of failed passes, and its errors are the first
\* min(error_count, 10) of the failures, in order.
C14_FailuresNeverAbortTheRun ==
    /\ os.attempted = [k \in 1..Len(os.attempted) |-> os.orders[k].order_number]
    /\ Len(os.outcomes) = Len(os.attempted)
    /\ os.pc = "upsert" => os.i = Len(os.attempted) + 1 /\ os.i <= Len(os.orders)
    /\ Completed(os) => Len(os.attempted) = Len(os.orders)
    /\ (os.pc = "done" /\ os.status = 200) =>
           LET resp == OrdersSyncResponse(os)
               failed == FailedKeys(os.attempted, os.outcomes)
           IN /\ resp.error_count = Len(failed)
              /\ Len(resp.errors) = IF Len(failed) < 10 THEN Len(failed) ELSE 10
              /\ resp.errors = SubSeq(failed, 1, Len(resp.errors))
              /\ resp.synced_count = Len(os.orders) - Len(failed)
    /\ iv.attempted = [k \in 1..Len(iv.attempted) |-> iv.variants[k].sku]
    /\ Len(iv.outcomes) = Len(iv.attempted) - (IF iv.pc = "snapshot" THEN 1 ELSE 0)
    /\ iv.pc = "product" => iv.i = Len(iv.attempted) + 1 /\ iv.i <= Len(iv.variants)
    /\ iv.pc = "snapshot" => iv.i = Len(iv.attempted)
    /\ Completed(iv) => Len(iv.attempted) = Len(iv.variants)
    /\ (iv.pc = "done" /\ iv.status = 200) =>
           LET resp == InventorySyncResponse(iv)
               failed == FailedKeys(iv.attempted, iv.outcomes)
           IN /\ resp.error_count = Len(failed)
              /\ Len(resp.errors) = IF Len(failed) < 10 THEN Len(failed) ELSE 10
              /\ resp.errors = SubSeq(failed, 1, Len(resp.errors))
              /\ resp.synced_snapshots = Len(iv.variants) - Len(failed)

\* A run of the orders sync over eleven records completed although its first
\* pass threw and every later one failed too: eleven failures, ten reported.
C14_Witness ==
    /\ os.pc = "done" /\ os.status = 200
    /\ Len(os.attempted) = 11
    /\ os.outcomes[1] = "throw" /\ os.outcomes[2] = "error"
    /\ os.errorCount = 11
    /\ Len(OrdersSyncResponse(os).errors) = 10

(***************************************************************************)
(* inventory-top20: claims                                                 *)
(***************************************************************************)
\* The readings of product id that no reading of it is newer than.
NewestReadings(id) ==
    { k \in 1..Len(inventory_snapshots) :
        /\ inventory_snapshots[k].product_id = id
        /\ \A m \in 1..Len(inventory_snapshots) :
              inventory_snapshots[m].product_id = id =>
                  inventory_snapshots[m].taken_at <= inventory_snapshots[k].taken_at }

\* C15: in a response of the inventory ranking no product id occurs twice,
\* each item carries the stock_level of a reading of its product that has
\* the greatest taken_at, the items are in non-decreasing stock_level order,
\* there are at most 20 of them, and a product that has readings but no item
\* has no newest reading below the stock_level of a returned item.
C15_RankingOfLatestStock ==
    (iq.place = "top20" /\ iq.status = 200) =>
        LET items == iq.items
            n == Len(items)
        IN /\ \A i, j \in 1..n : i # j => items[i].product_id # items[j].product_id
           /\ \A i \in 1..n :
                 \E k \in NewestReadings(items[i].product_id) :
                    /\ inventory_snapshots[k].stock_level = items[i].stock_level
                    /\ inventory_snapshots[k].taken_at = items[i].last_updated
           /\ \A i \in 1..(n - 1) : items[i].stock_level <= items[i + 1].stock_level
           /\ n <= 20
           /\ \A p \in 1..Len(products) :
                 (NewestReadings(products[p].id) # {}
                     /\ ~HasItemOf(items, products[p].id)) =>
                    /\ n = 20
                    /\ \E k \in NewestReadings(products[p].id) :
                          \A i \in 1..n :
                             inventory_snapshots[k].stock_level >= items[i].stock_level

\* Twenty-one products were ranked: one was left out, and the first item is a
\* product whose newest reading is not its first one.
C15_Witness ==
    /\ iq.place = "top20" /\ iq.status = 200
    /\ Len(products) = 21 /\ Len(iq.items) = 20
    /\ Len(inventory_snapshots) > Len(products)
    /\ iq.items[1].last_updated = Len(products) + 1
    /\ iq.items[1].stock_level = 0

(***************************************************************************)
(* shopify-webhook: claims about topics and concurrency                    *)
(***************************************************************************)
Stored(d) == <<d, "shopify_orders">> \in whWrites
Announced(d) == <<d, "notifications">> \in whWrites

RowsOfId(table, i) == {table[k] : k \in {m \in 1..Len(table) : table[m].id = i}}

\* Of two stored deliveries, the one whose upsert was applied later.
LastStoredOf(d, e) ==
    IF \E k \in 1..Len(whUpserts) :
          whUpserts[k] = d /\ \A m \in 1..Len(whUpserts) : whUpserts[m] = e => m < k
    THEN d ELSE e

\* C17: when two validly signed deliveries of the same order id have both
\* been stored, in whatever order their steps were taken, there is exactly
\* one row of that id and it is, field for field, the row of the delivery
\* whose upsert was applied last, never a mix of the two; and every step that
\* applies an upsert leaves exactly the row of its delivery under that id and
\* every other id as it was.  Nothing orders the two: the witness is a
\* delivery that arrived first and was applied last.
C17_ConcurrentUpsertsLastWriteWins ==
    /\ [](\A d, e \in Deliveries :
             (d # e /\ Stored(d) /\ Stored(e)
                 /\ wh[d].order[1].id = wh[e].order[1].id) =>
                RowsOfId(shopify_orders, wh[d].order[1].id)
                    = {OrderRow(wh[LastStoredOf(d, e)].order[1])})
    /\ [][ /\ \A d \in Deliveries :
                whUpserts' = Append(whUpserts, d) =>
                   /\ RowsOfId(shopify_orders', wh[d].order[1].id)
                          = {OrderRow(wh[d].order[1])}
                   /\ Cardinality({k \in 1..Len(shopify_orders') :
                          shopify_orders'[k].id = wh[d].order[1].id}) = 1
                   /\ \A i \in OrderIds \ {wh[d].order[1].id} :
                          RowsOfId(shopify_orders', i) = RowsOfId(shopify_orders, i)
           /\ whUpserts' = whUpserts => shopify_orders' = shopify_orders
         ]_vars

\* Two orders/updated deliveries of one order, differing in their fields,
\* were in the handler together; the one that arrived first was applied last
\* and its row is the one stored.
C17_Witness ==
    \E d, e \in Deliveries :
        /\ wh[d].pc = "done" /\ wh[e].pc = "done"
        /\ wh[d].topic = "orders/updated" /\ wh[e].topic = "orders/updated"
        /\ wh[d].seq = 1 /\ wh[e].seq = 2
        /\ whUpserts = <<e, d>>
        /\ wh[d].order[1].id = wh[e].order[1].id
        /\ wh[d].order[1].created_at = wh[e].order[1].created_at
        /\ OrderRow(wh[d].order[1]) # OrderRow(wh[e].order[1])
        /\ shopify_orders = <<OrderRow(wh[d].order[1])>>

(***************************************************************************)
(* Upstream failures: claims                                               *)
(***************************************************************************)
\* C18 (as the specification states it): a run that met an upstream failure
\* (the SPY API replied non-2xx, the datastore returned an error) is answered
\* 500; a sync whose fetch was answered non-2xx is answered 500 and has
\* attempted no record.
C18_UpstreamFailuresAnswered500 ==
    /\ (os.pc = "done" /\ os.upstream # "none") =>
           os.status = 500 /\ os.attempted = << >> /\ os.synced = 0
    /\ (iv.pc = "done" /\ iv.upstream # "none") =>
           iv.status = 500 /\ iv.attempted = << >> /\ iv.syncedProducts = 0
    /\ (ad.pc = "done" /\ ad.upstream # "none") => ad.status = 500

\* C19 (as the specification states it): a request of the assistant whose
\* dispatched function had its datastore query answered with an error ends
\* with an error response, not with an answer and citations.
C19_FailedDataQueryFailsTheRequest ==
    (ai.pc = "done" /\ ai.queryFailed) =>
        /\ ai.status = 500
        /\ ai.response = << >>

(***************************************************************************)
(* The front end on its own: the page is opened at any address with any    *)
(* session kept by the browser; auth events, the answers of the profile    *)
(* queries and the user's moves interleave.                                *)
(***************************************************************************)
RoutesInit ==
    /\ WhInit /\ webhookSecret = NULL /\ notifications = << >> /\ SpyInit
    /\ secrets = [k \in SecretKeys |-> << >>]
    /\ iq = IqIdle /\ ss = SsIdle /\ ai = AiIdle /\ chat = ChatIdle /\ dash = DashClosed
    /\ app \in {[AppClosed EXCEPT !.client = c, !.path = p] :
                   c \in Accounts \cup {NULL}, p \in Paths}

DoAppGetSession == AppGetSession /\ UNCHANGED <<whVars, notifications, spyVars, iq, ss, ai,
                 chat, dash>>
DoAppAuthChange ==
    /\ \E s \in Accounts \cup {NULL} : AppAuthChange(s)
    /\ UNCHANGED <<whVars, notifications, spyVars, iq, ss, ai,
                 chat, dash>>
DoAppProfileQuery ==
    /\ \E f \in app.fetches, outcome \in {"row", "norow", "error", "throw"} :
          AppProfileQuery(f, outcome)
    /\ UNCHANGED <<whVars, notifications, spyVars, iq, ss, ai,
                 chat, dash>>
DoAppDefaultProfile ==
    /\ \E f \in app.fetches : AppDefaultProfile(f)
    /\ UNCHANGED <<whVars, notifications, spyVars, iq, ss, ai,
                 chat, dash>>
DoAppRedirect == AppRedirect /\ UNCHANGED <<whVars, notifications, spyVars, iq, ss, ai,
                 chat, dash>>
DoAppOpen ==
    /\ \E p \in Paths : AppOpen(p)
    /\ UNCHANGED <<whVars, notifications, spyVars, iq, ss, ai,
                 chat, dash>>

RoutesNext ==
    \/ DoAppGetSession
    \/ DoAppAuthChange
    \/ DoAppProfileQuery
    \/ DoAppDefaultProfile
    \/ DoAppRedirect
    \/ DoAppOpen
SpecRoutes == RoutesInit /\ [][RoutesNext]_vars

(***************************************************************************)
(* Claims about the front end                                              *)
(***************************************************************************)
\* The profile held by the component is the one of the user signed in.
ProfileLoaded(a) == a.user # << >> /\ a.user[1].id = a.session

\* The role of an account: the one of its row in users, sales without a row.
StandingRole(id) == IF ProfileRole(id) = NULL THEN "sales" ELSE ProfileRole(id)

\* C20: for a signed-in user the routes are gated on the user's role: the
\* sales view is rendered only for role sales or admin, the inventory view
\* only for role warehouse or admin, the admin panel only for role admin, and
\* at these three addresses every other user, one whose profile is not yet
\* loaded included, is redirected to "/"; a user without a row in users has
\* role sales and is never shown the inventory view or the admin panel.
C20_RoutesAreRoleGated ==
    (~app.loading /\ app.session # NULL) =>
        /\ Rendered(app) = "SalesView" =>
               StandingRole(app.session) \in {"sales", "admin"}
        /\ Rendered(app) = "InventoryView" =>
               StandingRole(app.session) \in {"warehouse", "admin"}
        /\ Rendered(app) = "SpyAdmin" => StandingRole(app.session) = "admin"
        /\ (app.path \in {"/sales", "/inventory", "/admin/spy"}
              /\ ~ProfileLoaded(app)) => Rendered(app) = "Navigate"
        /\ ProfileRole(app.session) = NULL =>
               Rendered(app) \notin {"InventoryView", "SpyAdmin"}

(***************************************************************************)
(* The admin dispatcher: claims about invalid input                        *)
(***************************************************************************)
\* The step answered an invalid request with 400 and did nothing else.
RejectedAsInput ==
    /\ ad'.pc = "done" /\ ad'.status = 400
    /\ ad'.secretReads = 0 /\ ad'.apiCalls = 0
    /\ lg'.pc = "idle" /\ os'.pc = "idle" /\ iv'.pc = "idle"
    /\ UNCHANGED <<secrets, notifications, spy_orders, products,
                   inventory_snapshots>>

\* C21: a request to the admin dispatcher from an admin that is invalid as
\* input (an action outside the six supported ones, or update_credentials
\* with username, password or api_url missing) is answered 400 at once: no
\* secret is read or written, no notification is created, no table changes
\* and no downstream function is called.
C21_InvalidInputRejected ==
    [][(ad' # ad /\ ad'.invalid /\ ad'.caller = "admin") => RejectedAsInput]_vars

\* C21 as stated, for every caller: any invalid request is answered 400.
C21_InvalidInputRejectedForAnyCaller ==
    [][(ad' # ad /\ ad'.invalid) => RejectedAsInput]_vars

\* An admin sent update_credentials without its fields while credentials, a
\* token and orders were stored: 400.
C21_Witness ==
    /\ ad.pc = "done" /\ ad.caller = "admin" /\ ad.invalid
    /\ ad.action = "update_credentials"
    /\ ad.status = 400
    /\ HasSecret(secrets, "SPY_TOKEN") /\ HasSecret(secrets, "SPY_USERNAME")
    /\ spy_orders # << >>

(***************************************************************************)
(* The inventory sync: claims about the snapshots                          *)
(***************************************************************************)
\* The rows a step added at the end of inventory_snapshots.
SnapshotsAdded == Len(inventory_snapshots') - Len(inventory_snapshots)

\* The step ended a pass of the inventory sync's loop with the outcome.
IvPassEnded(outcome) ==
    /\ Len(iv'.outcomes) = Len(iv.outcomes) + 1
    /\ iv'.outcomes[Len(iv'.outcomes)] = outcome

\* C22: inventory_snapshots is append-only: every step of every handler
\* leaves the rows already there as they are (none updated, none deleted,
\* their number never smaller), and a step adds a row exactly when it ends a
\* pass of the inventory sync's loop successfully, one row for that record,
\* counted in synced_snapshots; a repeated sync adds further rows.
C22_SnapshotsAppendOnly ==
    [][ /\ SnapshotsAdded >= 0
        /\ SubSeq(inventory_snapshots', 1, Len(inventory_snapshots))
              = inventory_snapshots
        /\ SnapshotsAdded = IF IvPassEnded("ok") THEN 1 ELSE 0
        /\ IvPassEnded("ok") => iv'.syncedSnapshots = iv.syncedSnapshots + 1
        /\ (iv'.pc # "idle" /\ Len(iv'.outcomes) >= Len(iv.outcomes)
              /\ ~IvPassEnded("ok")) => iv'.syncedSnapshots = iv.syncedSnapshots
      ]_vars

\* A second run of the inventory sync added a reading of a product that the
\* first run had already read: both readings are stored.
C22_Witness ==
    /\ iv.pc = "done" /\ iv.status = 200 /\ iv.syncedSnapshots >= 1
    /\ Len(inventory_snapshots) > iv.syncedSnapshots
    /\ \E j, k \in 1..Len(inventory_snapshots) :
          j < k /\ inventory_snapshots[j].product_id = inventory_snapshots[k].product_id

\* The passes of the run whose snapshot insert failed.
SnapshotFailures(run) ==
    {i \in 1..Len(run.outcomes) :
        run.outcomes[i] \in {"snapshot_error", "snapshot_throw"}}

\* C23: in a run of the inventory sync a failed snapshot insert is one
\* per-record error and the product upsert of that record stays applied (the
\* step changes no product, the product is stored and counted); after every
\* pass synced_snapshots + error_count is the number of records handled, so
\* it is N in the response of a run over N records, and
\* synced_products >= synced_snapshots.
C23_SnapshotFailureNotRolledBack ==
    /\ [](iv.pc \in {"product", "notify", "done"} /\ iv.variants # << >> =>
            LET r == InventorySyncResponse(iv) IN
            /\ r.synced_snapshots + r.error_count = Len(iv.outcomes)
            /\ r.synced_products >= r.synced_snapshots
            /\ r.synced_products >= r.synced_snapshots + Cardinality(SnapshotFailures(iv))
            /\ iv.pc \in {"notify", "done"} => Len(iv.outcomes) = Len(iv.variants)
            /\ \A i \in SnapshotFailures(iv) :
                  \E k \in 1..Len(products) : products[k].sku = iv.attempted[i])
    /\ [][(IvPassEnded("snapshot_error") \/ IvPassEnded("snapshot_throw")) =>
            /\ products' = products
            /\ inventory_snapshots' = inventory_snapshots
            /\ iv'.errorCount = iv.errorCount + 1
            /\ iv'.syncedProducts = iv.syncedProducts]_vars

\* A run over two records ended: the snapshot of the first failed, its
\* product is stored, the second went through.
C23_Witness ==
    /\ iv.pc = "done" /\ iv.status = 200 /\ Len(iv.variants) = 2
    /\ iv.outcomes = <<"snapshot_error", "ok">>
    /\ iv.syncedProducts = 2 /\ iv.syncedSnapshots = 1 /\ iv.errorCount = 1
    /\ \E k \in 1..Len(products) : products[k].sku = iv.attempted[1]
    /\ Len(inventory_snapshots) = 1

(***************************************************************************)
(* spy-login-refresh: claims about its failures                            *)
(***************************************************************************)
\* The SPY_TOKEN row is the one the login run stored.
StoredByRun(run) ==
    /\ HasSecret(secrets, "SPY_TOKEN")
    /\ secrets["SPY_TOKEN"][1].value = run.token
    /\ secrets["SPY_TOKEN"][1].expires_at = run.expiresAt
    /\ run.expiresAt # << >>

\* The smoke test of the run failed: the SPY API answered non-2xx, or the
\* call got no answer.
SmokeTestFailed(run) == run.testReply \in {"non2xx", "throw"}

\* C24: the login run has stored the new token, with the expiry of one hour
\* after the login, when it makes the smoke test; a failing smoke test
\* changes no secret: the run responds 200 with success true and token_valid
\* false, SPY_TOKEN is the new token, and a sync started by an admin before
\* the expiry has passed takes that token to the SPY API.
C24_FailedSmokeTestKeepsToken ==
    /\ [](lg.pc = "test" => StoredByRun(lg))
    /\ []((lg.pc = "done" /\ SmokeTestFailed(lg)) =>
            /\ lg.status = 200
            /\ lg.resp = <<[success |-> TRUE, token_refreshed |-> TRUE,
                            expires_at |-> lg.expiresAt, token_valid |-> FALSE]>>
            /\ StoredByRun(lg))
    /\ [][(lg.pc = "test" /\ SmokeTestFailed(lg')) =>
             secrets' = secrets /\ notifications' = notifications]_vars
    /\ [][(lg.pc = "done" /\ SmokeTestFailed(lg) /\ lg.expiresAt[1] >= now
             /\ HasSecret(secrets, "SPY_API_URL")) =>
            /\ (os' # os /\ os'.pc # "idle" /\ os'.caller = "admin") =>
                   os'.pc = "fetch" /\ os'.token = lg.token
            /\ (iv' # iv /\ iv'.pc # "idle" /\ iv'.caller = "admin") =>
                   iv'.pc = "fetch" /\ iv'.token = lg.token]_vars

\* The login run has stored no token.
NothingStored(run) == run.pc # "idle" /\ run.expiresAt = << >>

OsStartedByAdmin ==
    os' # os /\ os.pc \in {"idle", "done"} /\ os'.pc # "idle" /\ os'.caller = "admin"

\* C26: every step of update_credentials changes no secret other than
\* SPY_USERNAME, SPY_PASSWORD and SPY_API_URL and no other table but
\* notifications: the SPY_TOKEN row, value and expires_at, stays as it was.
\* So an orders sync started afterwards goes to its fetch with the stored
\* token and the API URL stored at that moment exactly when the token has
\* not expired.
C26_UpdateCredentialsKeepsToken ==
    /\ [][(ad' # ad /\ ad'.action = "update_credentials") =>
            /\ secrets'["SPY_TOKEN"] = secrets["SPY_TOKEN"]
            /\ \A k \in SecretKeys : secrets'[k] # secrets[k] => k \in CredentialKeys
            /\ UNCHANGED <<spy_orders, products, inventory_snapshots>>]_vars
    /\ [][OsStartedByAdmin =>
            /\ os'.pc = "fetch" <=> ~StoredTokenExpired
            /\ os'.pc = "fetch" =>
                  /\ os'.token = SecretValue(secrets, "SPY_TOKEN")
                  /\ os'.apiUrl = SecretValue(secrets, "SPY_API_URL")]_vars
    /\ [](HasSecret(secrets, "SPY_TOKEN") /\ HasSecret(secrets, "SPY_API_URL")
            /\ secrets["SPY_TOKEN"][1] = [value |-> "tokA",
                                          expires_at |-> <<LoginExpiry(0)>>,
                                          updated_at |-> 0])

\* After the API URL was changed, an orders sync took the token obtained
\* before the change to the new URL, in the hour of the token's expiry.
C26_Witness ==
    /\ os.pc = "done" /\ os.status = 200 /\ os.apiCalls = 1
    /\ os.token = "tokA" /\ os.apiUrl = "url2"
    /\ SecretValue(secrets, "SPY_USERNAME") = "u2"
    /\ now = LoginExpiry(0)

(***************************************************************************)
(* update_credentials with a login run beside it                           *)
(***************************************************************************)
\* A login run starts while the dispatcher may be in the middle of a run:
\* the functions are separate requests.
DoLgStartBeside == LgStart("direct") /\ UNCHANGED <<os, iv, ad, whVars, qVars>>

\* An admin updates the credentials, every upsert going through, while
\* login runs start and go on at any moment.
RaceNext ==
    \/ DoAdStart /\ ad'.caller = "admin" /\ ad'.action = "update_credentials"
    \/ DoAdCred /\ ad'.upstream = "none"
    \/ DoAdCredNotify
    \/ DoLgStartBeside
    \/ DoLgLogin \/ DoLgStore \/ DoLgTest \/ DoLgFail
SpecRace == LoopInit /\ [][RaceNext]_vars

\* C27: the username, password and API URL a login run has read are the
\* three values of one update_credentials call, or the three stored before it.
C27_LoginReadsOneCredentialSet ==
    lg.creds # << >> => lg.creds[1] \in CredentialSets

(***************************************************************************)
(* The expiry check of the syncs                                           *)
(***************************************************************************)
\* The secrets hold the API URL and a token whose expires_at is null or any
\* hour of the clock (the column is nullable: schema lines 61-68).
ExpiryInit ==
    /\ WhInit /\ webhookSecret = NULL /\ notifications = << >>
    /\ \E exp \in {<< >>} \cup {<<t>> : t \in 0..MaxTime} :
         secrets = [k \in SecretKeys |->
                       IF k = "SPY_TOKEN"
                       THEN <<[value |-> "tokA", expires_at |-> exp, updated_at |-> 0]>>
                       ELSE <<[value |-> (CHOOSE c \in CredentialSets :
                                              c.SPY_API_URL = "url1")[k],
                               expires_at |-> << >>, updated_at |-> 0]>>]
    /\ spy_orders = << >> /\ products = << >> /\ inventory_snapshots = << >>
    /\ now = 0
    /\ lg = LgIdle /\ os = OsIdle /\ iv = IvIdle /\ ad = AdIdle
    /\ QueryInit

\* Both syncs, started by an admin at any hour.
ExpiryNext ==
    \/ DoTick
    \/ DoOsStart /\ os'.caller = "admin"
    \/ DoOsFetch /\ Len(os'.orders) <= 1
    \/ DoOsUpsert \/ DoOsNotify
    \/ DoIvStart /\ iv'.caller = "admin"
    \/ DoIvFetch /\ Len(iv'.variants) = 0
    \/ DoIvNotify
SpecExpiry == ExpiryInit /\ [][ExpiryNext]_vars

\* The step started a run of the inventory sync for an admin.
IvStartedByAdmin ==
    iv' # iv /\ iv.pc \in {"idle", "done"} /\ iv'.pc # "idle" /\ iv'.caller = "admin"

\* expires_at of the stored token is set and earlier than the clock.
ExpirySetAndPast ==
    LET exp == secrets["SPY_TOKEN"][1].expires_at IN exp # << >> /\ exp[1] < now

\* C28: a sync started by an admin with the token and the API URL stored is
\* refused as expired (400, no call of the SPY API) exactly when expires_at of
\* SPY_TOKEN is set and earlier than the clock; otherwise, and so at any hour
\* when expires_at is null, it goes to its fetch with the token.
C28_ExpiredOnlyWhenSetAndPast ==
    [][ /\ OsStartedByAdmin =>
              IF ExpirySetAndPast THEN os'.pc = "done" /\ os'.status = 400 /\ os'.apiCalls = 0
              ELSE os'.pc = "fetch" /\ os'.token = "tokA"
        /\ IvStartedByAdmin =>
              IF ExpirySetAndPast THEN iv'.pc = "done" /\ iv'.status = 400 /\ iv'.apiCalls = 0
              ELSE iv'.pc = "fetch" /\ iv'.token = "tokA" ]_vars

\* At the last hour of the clock an orders sync fetched with a token stored
\* at hour 0 without expires_at.
C28_Witness ==
    /\ os.pc = "done" /\ os.status = 200 /\ os.apiCalls = 1 /\ os.token = "tokA"
    /\ secrets["SPY_TOKEN"][1].expires_at = << >>
    /\ secrets["SPY_TOKEN"][1].updated_at = 0
    /\ iv.pc = "idle"
    /\ now = MaxTime

(***************************************************************************)
(* The chat view alone: the user types, submits, and the calls to ai-ask   *)
(* settle.  A call that was made settles: the promise of invoke resolves   *)
(* or rejects.                                                             *)
(***************************************************************************)
ChatInit ==
    /\ WhInit /\ webhookSecret = NULL /\ notifications = << >> /\ SpyInit
    /\ secrets = [k \in SecretKeys |-> << >>]
    /\ iq = IqIdle /\ ss = SsIdle /\ ai = AiIdle /\ app = AppClosed
    /\ chat = ChatIdle /\ dash = DashClosed

DoChatType ==
    /\ \E text \in Inputs : ChatType(text)
    /\ UNCHANGED <<whVars, notifications, spyVars, iq, ss, ai, app, dash>>
DoChatSubmit ==
    /\ ChatSubmit
    /\ UNCHANGED <<whVars, notifications, spyVars, iq, ss, ai, app, dash>>
DoChatSettle ==
    /\ \E k \in 1..Len(chat.calls), outcome \in {"ok", "failed"}, answer \in Answers :
          ChatSettle(k, outcome, answer)
    /\ UNCHANGED <<whVars, notifications, spyVars, iq, ss, ai, app, dash>>

ChatNext == DoChatType \/ DoChatSubmit \/ DoChatSettle
SpecChat == ChatInit /\ [][ChatNext]_vars /\ WF_vars(DoChatSettle)

\* The list is the greeting, then user and assistant messages in turn; a
\* call is in flight exactly while loading, and then the last message is the
\* user's.
InTurn ==
    /\ chat.messages[1] = Greeting
    /\ \A i \in 2..Len(chat.messages) : chat.messages[i].isUser <=> (i % 2 = 0)
    /\ Len(chat.calls) = (IF chat.loading THEN 1 ELSE 0)
    /\ chat.loading <=> (Len(chat.messages) % 2 = 0)

\* An accepted submission: not loading, input not blank; one user message
\* with the trimmed input is appended and loading begins.
Submitted ==
    /\ ~chat.loading /\ Trim(chat.input) # ""
    /\ chat'.messages = Append(chat.messages,
                               [isUser |-> TRUE, content |-> Trim(chat.input)])
    /\ chat'.loading /\ chat'.calls = <<Trim(chat.input)>>

\* The call settled: one assistant message is appended, an answer or an
\* apology, and loading ends.
Answered ==
    /\ chat.loading
    /\ \E c \in (Answers \ {""}) \cup {FallbackText, ErrorText} :
          chat'.messages = Append(chat.messages, [isUser |-> FALSE, content |-> c])
    /\ ~chat'.loading /\ chat'.calls = << >>

\* C29: in the chat view nothing is submitted while a request is in flight
\* or while the input is blank; an accepted submission appends exactly one
\* user message, which is followed eventually by exactly one assistant
\* message (the answer or an apology text), after which loading is false;
\* the message list only grows.
C29_ChatSubmissionsAndAnswers ==
    /\ []InTurn
    /\ [][(chat'.messages # chat.messages \/ chat'.loading # chat.loading)
            => (Submitted \/ Answered)]_vars
    /\ \A n \in 1..MaxMessages :
          (chat.loading /\ Len(chat.messages) = n)
             ~> (~chat.loading /\ Len(chat.messages) = n + 1)

\* Two exchanges: the first call failed, the second was answered.
C29_Witness ==
    /\ ~chat.loading /\ Len(chat.messages) = 5
    /\ chat.messages[2].isUser /\ chat.messages[3].content = ErrorText
    /\ chat.messages[4].isUser /\ chat.messages[5].content = "a1"

(***************************************************************************)
(* The Dashboard or the Sales view over the order tables of SalesInit: the *)
(* view is opened, the user selects periods, and each fetch is served by   *)
(* sales-summary or fails on its way.                                      *)
(***************************************************************************)
\* The tables of SalesInit with one Shopify order and two SPY orders, on the
\* last day, asked at midnight or at 13h.
DashInit ==
    /\ SalesInit
    /\ now \in {MaxDay * HoursPerDay, MaxDay * HoursPerDay + 13}
    /\ Len(shopify_orders) = 1 /\ Len(spy_orders) = 2

DoDashOpen ==
    /\ \E view \in SalesViews : DashOpen(view)
    /\ UNCHANGED <<whVars, notifications, spyVars, iq, ss, ai, app, chat>>
DoDashSelect ==
    /\ \E period \in SelectablePeriods : DashSelect(period)
    /\ UNCHANGED <<whVars, notifications, spyVars, iq, ss, ai, app, chat>>
DoDashCallFails ==
    /\ \E k \in 1..Len(dash.calls) : DashCallFails(k)
    /\ UNCHANGED <<whVars, notifications, spyVars, iq, ss, ai, app, chat>>
DoDashServe ==
    /\ \E k \in 1..Len(dash.calls) : DashServe(k)
    /\ UNCHANGED <<whVars, notifications, spyVars, iq, ai, app, chat>>
DoDashSettle ==
    /\ DashSettle
    /\ UNCHANGED <<whVars, notifications, spyVars, iq, ss, ai, app, chat>>

DashNext ==
    \/ DoDashOpen
    \/ DoDashSelect
    \/ DoDashCallFails
    \/ DoDashServe
    \/ DoSsShopify
    \/ DoSsSpy
    \/ DoDashSettle
SpecDash == DashInit /\ [][DashNext]_vars

\* The response of the last outstanding fetch arrives with data.
LastSummaryArrives ==
    /\ dash.serving /\ ~dash'.serving
    /\ ss.status = 200
    /\ dash'.calls = << >>

\* C30: after the user selects a period in the Dashboard or the Sales view,
\* the sales summary fetched and displayed is the one the sales-summary
\* handler computes for the selected period.
C30_SummaryOfSelectedPeriod ==
    [][LastSummaryArrives =>
          /\ dash'.salesSummary # << >>
          /\ dash'.salesSummary[1].period = dash'.selectedPeriod
          /\ dash'.salesSummary[1].startDate = StartDate(dash'.selectedPeriod, ss.at)]_vars

====
